---- MODULE Spec2Model ----
(***************************************************************************)
(* Model of the video-builder backend (backend/app): the template render   *)
(* endpoints, the multipart concatenation endpoint and the trim endpoint.  *)
(* One behaviour is one request: a Start action runs the handler up to the *)
(* point where it waits for its child process, the child's outcome is the  *)
(* environment's choice, and the handler's continuation is one action.     *)
(* Times are integers in tenths of a second (0.5 s = 5).                   *)
(***************************************************************************)
EXTENDS Integers, Sequences, FiniteSets, TLC

VARIABLES
    ep,           \* endpoint handling the request ("none" before it starts)
    pc,           \* position of the handler
    dur,          \* resolved duration (audio_duration / video_duration), tenths
    durIn,        \* what the duration was resolved from: the submitted field and the probe's answer
    hasText,      \* the request carries text for an overlay (and does not hide it)
    ovGen,        \* outcome of the overlay generation ("none" when not run)
    hasOverlay,   \* has_overlay and overlay_path after overlay generation
    imageBad,     \* the uploaded image is zero-byte or undecodable (type image/*)
    hasImage,     \* image_path is set (how-it-works optional image)
    inputs,       \* artifacts of the emitted -i list, in order
    inputIdx,     \* how-it-works: indices assigned to the inputs
    stages,       \* filter_parts: the stages of the emitted filter graph
    mapVideo,     \* label passed to the video -map ("" when there is none)
    mapAudio,     \* input index passed to the audio -map (-1 when none)
    win,          \* announcement: the animation windows computed from dur
    ovFile,       \* the overlay PNG of the request: none / exists / removed
    tempDir,      \* the request's scratch directory: none / exists / removed
    outFile,      \* whether the file at output_path exists
    resp,         \* none / file / error
    errKind,      \* kind of the error response
    errDiag,      \* the error detail carries the encoder's captured stderr
    respFile,     \* the file a file response names: path, existence, banner
    bgTasks,      \* cleanup tasks registered with background_tasks
    bgRan,        \* the background cleanup has run
    cleanupCalls, \* cleanup_temp_path calls made by the handler itself
    rc,           \* returncode of the last child (NoExit while none was collected)
    child,        \* last child process: none/running/exited/killed/reaped
    timeoutSecs,  \* timeout of the wait on the child, seconds
    segsIn,       \* concatenation: the segments of the request, each with its slot
    segMeta,      \* concatenation: segment_metadata
    concatList,   \* concatenation: the file names listed in concat_list.txt (their numbers)
    segFiles,     \* concatenation: content (slot) held by segment_<number>.mp4
    finalDur,     \* concatenation: final_video_duration (Unknown when None)
    finalProbed,  \* concatenation: the probe of the output succeeded
    qrIntervals,  \* concatenation: qr_intervals
    trimArgs,     \* trim: start, end and the probed duration
    fn,           \* audio enhancer: the function last applied ("none" before any)
    fnArgs,       \* audio enhancer: the arguments it was applied to
    fnOut,        \* audio enhancer: what it returned
    reqs,         \* concurrent requests: endpoint, texts, position, overlay path
    disk,         \* concurrent requests: the files that exist, path -> content
    touched,      \* concurrent requests: every access <<request, path, mode>> made so far
    wmk,          \* watermark pass: position, arguments, command, outcome
    probe,        \* duration probe: the function called, what ffprobe did, the result
    anim,         \* easing: the expression built and the values it takes
    poll,         \* transcript polling: attempts made, statuses seen, outcome
    enh           \* audio enhancement: position, temp directory, outcome

gvars == <<dur, durIn, hasText, ovGen, hasOverlay, imageBad, hasImage, inputs, inputIdx, stages, mapVideo, mapAudio, win>>
lvars == <<ovFile, tempDir, outFile, resp, errKind, errDiag, respFile, bgTasks, bgRan, cleanupCalls,
          rc, child, timeoutSecs>>
cvars == <<segsIn, segMeta, concatList, segFiles, finalDur, finalProbed, qrIntervals>>
avars == <<fn, fnArgs, fnOut>>
pvars == <<reqs, disk, touched>>
xvars == <<wmk, probe, anim, poll, enh>>
vars == <<ep, pc, gvars, lvars, cvars, trimArgs, avars, pvars, xvars>>

\* ---------------------------------------------------------------- bounds
\* Longest duration drawn for a request, in tenths of a second.
MaxDur == 24
\* Durations (tenths) at which the demo timeout reaches its cap region.
LongDurs == {300, 2000}
Durations == (1..MaxDur) \cup LongDurs

Max(a, b) == IF a >= b THEN a ELSE b
Min(a, b) == IF a <= b THEN a ELSE b

\* ------------------------------------------------------- filter graphs
\* A stream reference of a stage: [N:v] of the input list, or a label.
\* want names the artifact the code means the reference to read.
InRef(n, want) == [k |-> "in", n |-> n, l |-> "", want |-> want]
LabRef(l) == [k |-> "lab", n |-> -1, l |-> l, want |-> ""]
Stage(ins, out) == [ins |-> ins, out |-> out]

NoIdx == [a \in {} |-> 0]
NoWin == [a \in {} |-> <<0, 0>>]

\* Probed duration when ffprobe fails: get_audio_duration's fallback, tenths.
AudioFallback == 100

\* The probe is not run when the submitted duration is usable
\* (announcement.py 54-57: get_audio_duration is called only in the else branch).
NotProbed == -2

DurationInputs(submitted, probed) ==
    [sub |-> submitted, probed |-> IF submitted > 0 THEN NotProbed ELSE probed]

\* audio_duration = float(duration) if duration and float(duration) > 0 else None;
\* if not audio_duration: audio_duration = get_audio_duration(audio_path)
ResolveDuration(submitted, probed) ==
    IF submitted > 0 THEN submitted
    ELSE IF probed = -1 THEN AudioFallback ELSE probed

\* ---- overlay generation
\* What generate_*_overlay_png does for the handler: it wrote the PNG, it
\* raised, it left no file (or returned None), or it left an empty file.
OverlayOutcomes == {"written", "raised", "missing", "empty"}

\* has_overlay after the generation and the handler's test of the file.
HasOverlay(txt, og) == txt /\ og = "written"

\* Where the PNG is written: intro passes temp_dir / "overlay.png"; persona
\* writes persona_overlay_<hash(text)>.png in the shared persona_overlays
\* directory; the others let the generator create a NamedTemporaryFile
\* (delete=False) in the system temporary directory.
OverlayLocation(e) ==
    CASE e = "intro" -> "scratch"
      [] e = "persona" -> "shared"
      [] OTHER -> "tmpfile"

\* The overlay file once generation is over. The NamedTemporaryFile exists
\* before anything is drawn, so it is left behind when drawing raises.
OverlayFileAfter(e, txt, og) ==
    IF ~txt THEN "none"
    ELSE IF og \in {"written", "empty"} THEN "exists"
    ELSE IF og = "raised" /\ OverlayLocation(e) = "tmpfile" THEN "exists"
    ELSE "none"

\* cleanup_temp_path(temp_dir) removes the overlay only when it lies in temp_dir.
OverlayAfterCleanup(e, f) ==
    IF f = "exists" /\ OverlayLocation(e) = "scratch" THEN "removed" ELSE f

\* ---- announcement
AnnouncementInputs(ov) ==
    IF ov THEN <<"image", "overlay", "wave", "highlight", "audio">>
    ELSE <<"image", "wave", "highlight", "audio">>

AnnouncementFilterParts(ov) ==
    << Stage(<<InRef(0, "image")>>, "scaled_image"),
       Stage(<<LabRef("scaled_image")>>, "final_container"),
       Stage(<<>>, "bg"),
       Stage(<<InRef(2, "wave")>>, "scaled_wave"),
       Stage(<<LabRef("bg"), LabRef("scaled_wave")>>, "wave_bg"),
       Stage(<<LabRef("wave_bg"), LabRef("final_container")>>, "base_video"),
       Stage(<<InRef(3, "highlight")>>, "scaled_highlight"),
       Stage(<<LabRef("base_video"), LabRef("scaled_highlight")>>, "highlight_video") >>
    \o (IF ov
        THEN << Stage(<<LabRef("highlight_video"), InRef(1, "overlay")>>, "final") >>
        ELSE << >>)

AnnouncementMapVideo(ov) == IF ov THEN "final" ELSE "highlight_video"
AnnouncementMapAudio(ov) == IF ov THEN 4 ELSE 3

\* The windows computed from audio_duration d; the text windows exist only
\* in the overlay branch.
AnnouncementWindows(ov, d) ==
    LET image_slide_out_start == Max(10, d - 5)
        image_slide_out_end == d
        overlay_start == 5
        overlay_end == Max(10, d - 5)
        text_slide_in_start == 5
        text_slide_in_end == text_slide_in_start + 6
        text_slide_out_start == overlay_end - 3
        text_slide_out_end == overlay_end
        img == [n \in {"image_slide_out"} |-> <<image_slide_out_start, image_slide_out_end>>]
        txt == [n \in {"overlay", "text_hold", "text_slide_out"} |->
                  IF n = "overlay" THEN <<overlay_start, overlay_end>>
                  ELSE IF n = "text_hold" THEN <<text_slide_in_end, text_slide_out_start>>
                  ELSE <<text_slide_out_start, text_slide_out_end>>]
    IN  IF ov THEN img @@ txt ELSE img

\* ---- how-it-works: indices are assigned while the input list is built
HiwOverlayIdx == 0
HiwImageIdx(ov) == IF ov THEN 1 ELSE 0
\* Mutant of HiwAudioIdx: input_idx is not advanced past the user image.
HiwAudioIdxStale(ov, img) == IF ov THEN 1 ELSE 0
HiwAudioIdx(ov, img) == (IF ov THEN 1 ELSE 0) + (IF img THEN 1 ELSE 0)
HiwWaveIdx(ov, img) == HiwAudioIdx(ov, img) + 1
HiwHighlightIdx(ov, img) == HiwWaveIdx(ov, img) + 1

HiwInputIdx(ov, img) ==
    [a \in ({"audio", "wave", "highlight"}
            \cup (IF ov THEN {"overlay"} ELSE {})
            \cup (IF img THEN {"image"} ELSE {})) |->
        IF a = "overlay" THEN HiwOverlayIdx
        ELSE IF a = "image" THEN HiwImageIdx(ov)
        ELSE IF a = "audio" THEN HiwAudioIdx(ov, img)
        ELSE IF a = "wave" THEN HiwWaveIdx(ov, img)
        ELSE HiwHighlightIdx(ov, img)]

HiwInputs(ov, img) ==
    (IF ov THEN <<"overlay">> ELSE << >>)
    \o (IF img THEN <<"image">> ELSE << >>)
    \o <<"audio", "wave", "highlight">>

HiwFilterParts(ov, img) ==
    LET base == << Stage(<<>>, "bg"),
                   Stage(<<InRef(HiwWaveIdx(ov, img), "wave")>>, "wave_scaled"),
                   Stage(<<LabRef("bg"), LabRef("wave_scaled")>>, "wave_bg"),
                   Stage(<<LabRef("wave_bg"), InRef(HiwHighlightIdx(ov, img), "highlight")>>,
                         "bg_complete") >>
        withImg == IF img
                   THEN << Stage(<<InRef(HiwImageIdx(ov), "image")>>, "scaled_image"),
                           Stage(<<LabRef("bg_complete"), LabRef("scaled_image")>>, "with_image") >>
                   ELSE << >>
        current_layer == IF img THEN "with_image" ELSE "bg_complete"
        top == IF ov
               THEN << Stage(<<LabRef(current_layer), InRef(HiwOverlayIdx, "overlay")>>, "final") >>
               ELSE << Stage(<<LabRef(current_layer)>>, "final") >>
    IN  base \o withImg \o top

HiwMapVideo == "final"

\* ---- persona
PersonaInputs(ov) ==
    IF ov THEN <<"image", "overlay", "audio">> ELSE <<"image", "audio">>

PersonaFilterParts(ov) ==
    << Stage(<<InRef(0, "image")>>, "bg") >>
    \o (IF ov THEN << Stage(<<LabRef("bg"), InRef(1, "overlay")>>, "final") >> ELSE << >>)

PersonaMapVideo(ov) == IF ov THEN "final" ELSE "bg"
PersonaMapAudio(ov) == IF ov THEN 2 ELSE 1

\* ---- closing
ClosingInputs(ov) ==
    <<"audio", "wave", "highlight">> \o (IF ov THEN <<"overlay">> ELSE << >>)

ClosingFilterParts(ov) ==
    << Stage(<<>>, "bg"),
       Stage(<<InRef(1, "wave")>>, "wave_scaled"),
       Stage(<<LabRef("bg"), LabRef("wave_scaled")>>, "wave_bg"),
       Stage(<<InRef(2, "highlight")>>, "faded_highlight"),
       Stage(<<LabRef("wave_bg"), LabRef("faded_highlight")>>, "highlight_video") >>
    \o (IF ov
        THEN << Stage(<<InRef(3, "overlay")>>, "faded_text"),
                Stage(<<LabRef("highlight_video"), LabRef("faded_text")>>, "final") >>
        ELSE << >>)

\* Mutant of ClosingMapVideo: the overlay branch maps the layer below the text.
ClosingMapVideoStale(ov) == "highlight_video"
ClosingMapVideo(ov) == IF ov THEN "final" ELSE "highlight_video"
ClosingMapAudio == 0

\* ---- intro: the overlay PNG is read by a movie= source, the composite has
\* no output label and the command has no -map
IntroFilterParts(ov) ==
    IF ov
    THEN << Stage(<<InRef(0, "video")>>, "base"),
            Stage(<<>>, "ovr"),
            Stage(<<LabRef("base"), LabRef("ovr")>>, "") >>
    ELSE << >>

\* ------------------------------------------------- process supervision
\* subprocess.run(cmd, capture_output=True, ...) is given no timeout.
NoTimeout == 0

\* render_demo: max(min_timeout, min(max_timeout, int((video_duration or 60) * 3) + 30))
DemoMinTimeout == 90
DemoMaxTimeout == 600
DemoTimeout(d) ==
    LET vd == IF d = 0 THEN 600 ELSE d
    IN  Max(DemoMinTimeout, Min(DemoMaxTimeout, ((vd * 3) \div 10) + 30))

\* The timeout each endpoint passes to the wait on its encoder.
EncoderTimeout(e, d) ==
    CASE e = "intro" -> 30
      [] e = "announcement" -> NoTimeout
      [] e = "how_it_works" -> 60
      [] e = "persona" -> 60
      [] e = "closing" -> 60
      [] e = "demo" -> DemoTimeout(d)
      [] e = "concat_mp" -> 120
      [] e = "concat" -> 120
      [] e = "trim" -> 120

\* trim_video waits 30 s for ffprobe.
TrimProbeTimeout == 30

\* Endpoints whose handler calls cleanup_temp_path before raising (timeout,
\* non-zero exit, missing output, unexpected exception); the other two end
\* in "finally: pass".
CleansOnError(e) == e \notin {"announcement", "how_it_works"}

\* Endpoints that register background_tasks.add_task(cleanup_temp_path, temp_dir).
SchedulesCleanup(e) == e \notin {"announcement", "how_it_works"}

\* Endpoints that test output_path.exists() after a zero exit.
ChecksOutput(e) == e # "intro"

\* Endpoints whose outer handler is "except Exception" (it also catches the
\* HTTPException the handler raised, and cleans up a second time).
OuterCatchesHttp(e) == e \in {"intro", "trim", "concat_mp", "concat"}

\* Number of cleanup_temp_path calls on an error path of endpoint e: one
\* before the HTTPException is raised, one more where the outer handler
\* catches it; an unexpected exception reaches the outer handler only.
ErrorCleanups(e, kind) ==
    IF ~CleansOnError(e) THEN 0
    ELSE IF kind # "unexpected" /\ OuterCatchesHttp(e) THEN 2 ELSE 1

\* Endpoints whose error for a non-zero exit puts result.stderr in the detail;
\* render_persona raises the bare "Video processing failed".
CarriesDiagnostics(e) == e # "persona"

\* cleanup_temp_path: a directory that exists is removed (rmtree).
CleanupTempPath(d) == IF d = "exists" THEN "removed" ELSE d

DirAfterError(e, d) == IF CleansOnError(e) THEN CleanupTempPath(d) ELSE d

\* What the caller of the QR banner pass handles: the pass wrote its output,
\* returned without one, raised FileNotFoundError, or raised something else.
QrPassOutcomes == {"applied", "no_output", "not_found", "failed"}

\* apply_watermark_to_video as its caller sees it: the output was written,
\* it returned without one, or it raised.
WatermarkOutcomes == {"written", "no_output", "raised"}

TemplateEps == {"intro", "announcement", "how_it_works", "persona", "closing", "demo"}

\* ------------------------------------------------------- concatenation
\* Most segments uploaded in one modelled request (the endpoint takes six).
MaxSegs == 3
\* Order values a segment may carry: the form defaults start at 0, the
\* interval code looks for 1 and 6.
OrderVals == {0, 1, 6}
\* Segment durations, tenths of a second.
SegDurs == {20, 30}
\* duration = None
Unknown == -1

\* One uploaded segment: its order value, the true duration of its content
\* and whether ffprobe can read that duration.
SegChoices == [order : OrderVals, d : SegDurs, ok : BOOLEAN, data : {TRUE}]
\* One segment of the JSON request: data tells whether it has a video_data
\* key at all.
JsonSegChoices == [order : OrderVals, d : SegDurs, ok : {TRUE}, data : BOOLEAN]

RECURSIVE SumSeq(_)
SumSeq(s) == IF s = << >> THEN 0 ELSE Head(s) + SumSeq(Tail(s))

\* list.sort(key=order) is stable: x goes behind every element whose order
\* is not greater than its own.
RECURSIVE InsertByOrder(_, _)
InsertByOrder(s, x) ==
    IF s = << >> THEN <<x>>
    ELSE IF Head(s).order <= x.order THEN <<Head(s)>> \o InsertByOrder(Tail(s), x)
    ELSE <<x>> \o s

RECURSIVE SortByOrder(_)
SortByOrder(s) ==
    IF s = << >> THEN << >>
    ELSE InsertByOrder(SortByOrder(SubSeq(s, 1, Len(s) - 1)), s[Len(s)])

\* The collected segments, each with the slot it was uploaded in.
Collected(segs) ==
    [i \in DOMAIN segs |-> [order |-> segs[i].order, d |-> segs[i].d,
                            ok |-> segs[i].ok, data |-> segs[i].data, slot |-> i]]

\* segment_metadata: one entry per sorted segment, probed right after the
\* segment is written.
SegmentMetadata(sorted) ==
    [i \in DOMAIN sorted |->
        [order |-> sorted[i].order,
         duration |-> IF sorted[i].ok THEN sorted[i].d ELSE Unknown]]

\* concat_list.txt: one line per sorted segment, naming segment_<order>.mp4.
ConcatListOf(sorted) == [i \in DOMAIN sorted |-> sorted[i].order]

\* What segment_<order>.mp4 holds once every segment is written: the last
\* segment written under that name.
SegFilesOf(sorted) ==
    [o \in {sorted[i].order : i \in DOMAIN sorted} |->
        LET last == CHOOSE i \in DOMAIN sorted :
                        /\ sorted[i].order = o
                        /\ \A j \in DOMAIN sorted : sorted[j].order = o => j <= i
        IN  [slot |-> sorted[last].slot, d |-> sorted[last].d]]

\* concatenate_videos: enumerate(sorted_segments) numbers every sorted segment
\* from 0, and those without video_data are skipped; file i is
\* segment_<i>.mp4.
WithData(sorted) == SelectSeq([i \in DOMAIN sorted |-> i], LAMBDA i : sorted[i].data)
JsonConcatListOf(sorted) == [k \in DOMAIN WithData(sorted) |-> WithData(sorted)[k] - 1]
JsonSegFilesOf(sorted) ==
    [n \in {i - 1 : i \in {j \in DOMAIN sorted : sorted[j].data}} |->
        [slot |-> sorted[n + 1].slot, d |-> sorted[n + 1].d]]
JsonSegmentMetadata(sorted) ==
    [k \in DOMAIN WithData(sorted) |->
        [order |-> sorted[WithData(sorted)[k]].order,
         duration |-> IF sorted[WithData(sorted)[k]].ok
                      THEN sorted[WithData(sorted)[k]].d ELSE Unknown]]

\* Duration of the encoder's output: the listed files played in turn.
OutputDuration(list, files) == SumSeq([i \in DOMAIN list |-> files[list[i]].d])

\* sum(meta["duration"] for meta in segment_metadata if meta["duration"] is not None)
TotalSegmentDuration(meta) ==
    SumSeq([i \in DOMAIN meta |->
              IF meta[i].duration = Unknown THEN 0 ELSE meta[i].duration])

\* final_video_duration: the probe of the output, else the sum of the known
\* segment durations when that is non-zero, else None.
FinalVideoDuration(probed, outDur, total) ==
    IF probed THEN outDur ELSE IF total # 0 THEN total ELSE Unknown

\* find_duration(order): the first entry with that order and a truthy duration.
FindDuration(meta, order) ==
    LET hits == {i \in DOMAIN meta :
                    meta[i].order = order /\ meta[i].duration \notin {Unknown, 0}}
    IN  IF hits = {} THEN Unknown
        ELSE meta[CHOOSE i \in hits : \A j \in hits : i <= j].duration

IntroOrder == 1
ClosingOrder == 6

QrIntervals(meta, fd) ==
    LET intro_duration == FindDuration(meta, IntroOrder)
        closing_duration == FindDuration(meta, ClosingOrder)
    IN  (IF intro_duration # Unknown THEN << <<0, intro_duration>> >> ELSE << >>)
        \o (IF closing_duration # Unknown /\ fd \notin {Unknown, 0}
            THEN << <<Max(0, fd - closing_duration), fd>> >>
            ELSE << >>)

\* ------------------------------------------------------------- trimming
\* Largest start, end and media length drawn for a trim request, seconds.
MaxTrim == 3
NoTrim == [start |-> 0, end |-> 0, duration |-> 0, len |-> 0]

\* ------------------------------------------------------------ the request
\* process.returncode before the child was waited on (None), and after it
\* was killed and collected (-SIGKILL).
NoExit == -1
Killed == -9

\* No FileResponse was built.
NoFile == [path |-> "none", exists |-> FALSE, marked |-> FALSE]

Init ==
    /\ ep = "none"
    /\ pc = "idle"
    /\ dur = 0
    /\ durIn = [sub |-> 0, probed |-> NotProbed]
    /\ hasText = FALSE
    /\ ovGen = "none"
    /\ ovFile = "none"
    /\ hasOverlay = FALSE
    /\ imageBad = FALSE
    /\ hasImage = FALSE
    /\ inputs = << >>
    /\ inputIdx = NoIdx
    /\ stages = << >>
    /\ mapVideo = ""
    /\ mapAudio = -1
    /\ win = NoWin
    /\ tempDir = "none"
    /\ outFile = FALSE
    /\ resp = "none"
    /\ errKind = ""
    /\ errDiag = FALSE
    /\ respFile = NoFile
    /\ bgTasks = 0
    /\ bgRan = FALSE
    /\ cleanupCalls = 0
    /\ child = "none"
    /\ rc = NoExit
    /\ timeoutSecs = NoTimeout
    /\ segsIn = << >>
    /\ segMeta = << >>
    /\ concatList = << >>
    /\ segFiles = NoIdx
    /\ finalDur = Unknown
    /\ finalProbed = FALSE
    /\ qrIntervals = << >>
    /\ trimArgs = NoTrim
    /\ fn = "none"
    /\ fnArgs = << >>
    /\ fnOut = << >>
    /\ reqs = [r \in {1, 2} |-> [ep |-> "none", text |-> [name |-> << >>, title |-> << >>],
                                 at |-> "idle", overlay |-> << >>]]
    /\ disk = << >>
    /\ touched = {}
    /\ wmk = [at |-> "idle"]
    /\ probe = [at |-> "idle"]
    /\ anim = [at |-> "idle"]
    /\ poll = [at |-> "idle"]
    /\ enh = [at |-> "idle"]

\* The handler has created temp_dir, built its command and started the
\* encoder; it now waits for it with timeout t.
Launch(e, t) ==
    /\ ep' = e
    /\ pc' = "encoding"
    /\ tempDir' = "exists"
    /\ child' = "running"
    /\ rc' = NoExit
    /\ timeoutSecs' = t
    /\ UNCHANGED <<outFile, resp, errKind, errDiag, respFile, bgTasks, bgRan, cleanupCalls>>

\* The handler ends in an HTTPException of the given kind.
Fail(e, kind) ==
    /\ pc' = "responded"
    /\ resp' = "error"
    /\ errKind' = kind
    /\ errDiag' = (kind = "failed" /\ CarriesDiagnostics(e))
    /\ tempDir' = DirAfterError(e, "exists")
    /\ ovFile' = (IF CleansOnError(e) THEN OverlayAfterCleanup(e, ovFile) ELSE ovFile)
    /\ cleanupCalls' = cleanupCalls + ErrorCleanups(e, kind)
    /\ UNCHANGED <<respFile, bgTasks, bgRan>>

\* The handler returns FileResponse(path); marked tells whether the file
\* carries the banner or watermark of the second pass.
Succeed(e, path, fileExists, marked) ==
    /\ pc' = "responded"
    /\ resp' = "file"
    /\ respFile' = [path |-> path, exists |-> fileExists, marked |-> marked]
    /\ bgTasks' = IF SchedulesCleanup(e) THEN bgTasks + 1 ELSE bgTasks
    /\ UNCHANGED <<errKind, errDiag, ovFile, tempDir, bgRan, cleanupCalls>>

Submitted == {0} \cup Durations
Probed == {-1, 0} \cup Durations
\* what get_video_duration returns when it returns: the parsed float, 0 included
VideoProbed == {0} \cup Durations

StartAnnouncement(txt, og, bad, sub, pr) ==
    /\ pc = "idle"
    /\ LET d == ResolveDuration(sub, pr)
       IN  /\ dur' = d
           /\ durIn' = DurationInputs(sub, pr)
           /\ win' = AnnouncementWindows(HasOverlay(txt, og), d)
    /\ hasText' = txt
    /\ ovGen' = (IF txt THEN og ELSE "none")
    /\ ovFile' = OverlayFileAfter("announcement", txt, og)
    /\ hasOverlay' = HasOverlay(txt, og)
    /\ imageBad' = bad
    /\ hasImage' = TRUE
    /\ inputs' = AnnouncementInputs(HasOverlay(txt, og))
    /\ inputIdx' = NoIdx
    /\ stages' = AnnouncementFilterParts(HasOverlay(txt, og))
    /\ mapVideo' = AnnouncementMapVideo(HasOverlay(txt, og))
    /\ mapAudio' = AnnouncementMapAudio(HasOverlay(txt, og))
    /\ Launch("announcement", EncoderTimeout("announcement", dur'))
    /\ UNCHANGED <<cvars, trimArgs>>
    /\ UNCHANGED <<avars, pvars, xvars>>

StartHowItWorks(txt, og, bad, img, sub, pr) ==
    /\ pc = "idle"
    /\ dur' = ResolveDuration(sub, pr)
    /\ durIn' = DurationInputs(sub, pr)
    /\ hasText' = txt
    /\ ovGen' = (IF txt THEN og ELSE "none")
    /\ ovFile' = OverlayFileAfter("how_it_works", txt, og)
    /\ hasOverlay' = HasOverlay(txt, og)
    /\ imageBad' = (img /\ bad)
    /\ hasImage' = img
    /\ inputs' = HiwInputs(HasOverlay(txt, og), img)
    /\ inputIdx' = HiwInputIdx(HasOverlay(txt, og), img)
    /\ stages' = HiwFilterParts(HasOverlay(txt, og), img)
    /\ mapVideo' = HiwMapVideo
    /\ mapAudio' = HiwAudioIdx(HasOverlay(txt, og), img)
    /\ win' = NoWin
    /\ Launch("how_it_works", EncoderTimeout("how_it_works", dur'))
    /\ UNCHANGED <<cvars, trimArgs>>
    /\ UNCHANGED <<avars, pvars, xvars>>

StartPersona(txt, og, bad, sub, pr) ==
    /\ pc = "idle"
    /\ dur' = ResolveDuration(sub, pr)
    /\ durIn' = DurationInputs(sub, pr)
    /\ hasText' = txt
    /\ ovGen' = (IF txt THEN og ELSE "none")
    /\ ovFile' = OverlayFileAfter("persona", txt, og)
    /\ hasOverlay' = HasOverlay(txt, og)
    /\ imageBad' = bad
    /\ hasImage' = TRUE
    /\ inputs' = PersonaInputs(HasOverlay(txt, og))
    /\ inputIdx' = NoIdx
    /\ stages' = PersonaFilterParts(HasOverlay(txt, og))
    /\ mapVideo' = PersonaMapVideo(HasOverlay(txt, og))
    /\ mapAudio' = PersonaMapAudio(HasOverlay(txt, og))
    /\ win' = NoWin
    /\ Launch("persona", EncoderTimeout("persona", dur'))
    /\ UNCHANGED <<cvars, trimArgs>>
    /\ UNCHANGED <<avars, pvars, xvars>>

StartClosing(txt, og, sub, pr) ==
    /\ pc = "idle"
    /\ dur' = ResolveDuration(sub, pr)
    /\ durIn' = DurationInputs(sub, pr)
    /\ hasText' = txt
    /\ ovGen' = (IF txt THEN og ELSE "none")
    /\ ovFile' = OverlayFileAfter("closing", txt, og)
    /\ hasOverlay' = HasOverlay(txt, og)
    /\ imageBad' = FALSE
    /\ hasImage' = FALSE
    /\ inputs' = ClosingInputs(HasOverlay(txt, og))
    /\ inputIdx' = NoIdx
    /\ stages' = ClosingFilterParts(HasOverlay(txt, og))
    /\ mapVideo' = ClosingMapVideo(HasOverlay(txt, og))
    /\ mapAudio' = ClosingMapAudio
    /\ win' = NoWin
    /\ Launch("closing", EncoderTimeout("closing", dur'))
    /\ UNCHANGED <<cvars, trimArgs>>
    /\ UNCHANGED <<avars, pvars, xvars>>

\* The intro handler probes the uploaded video (vd) and has no duration field.
StartIntro(txt, og, vd) ==
    /\ pc = "idle"
    /\ txt => og # "raised"
    /\ dur' = vd
    /\ durIn' = DurationInputs(0, vd)
    /\ hasText' = txt
    /\ ovGen' = (IF txt THEN og ELSE "none")
    /\ ovFile' = OverlayFileAfter("intro", txt, og)
    /\ hasOverlay' = HasOverlay(txt, og)
    /\ imageBad' = FALSE
    /\ hasImage' = FALSE
    /\ inputs' = <<"video">>
    /\ inputIdx' = NoIdx
    /\ stages' = IntroFilterParts(HasOverlay(txt, og))
    /\ mapVideo' = ""
    /\ mapAudio' = -1
    /\ win' = NoWin
    /\ Launch("intro", EncoderTimeout("intro", dur'))
    /\ UNCHANGED <<cvars, trimArgs>>
    /\ UNCHANGED <<avars, pvars, xvars>>

\* render_intro_video calls generate_overlay_png outside any try of its own:
\* when it raises, the outer handler cleans up and answers 500.
IntroOverlayRaises ==
    /\ pc = "idle"
    /\ ep' = "intro"
    /\ hasText' = TRUE
    /\ ovGen' = "raised"
    /\ Fail("intro", "unexpected")
    /\ UNCHANGED <<dur, durIn, hasOverlay, imageBad, hasImage, inputs, inputIdx, stages, mapVideo, mapAudio,
                   win, cvars, trimArgs, outFile, rc, child, timeoutSecs>>
    /\ UNCHANGED <<avars, pvars, xvars>>

\* The demo handler uses -vf, not a filter graph.
StartDemo(sub, vd) ==
    /\ pc = "idle"
    /\ dur' = (IF sub > 0 THEN sub ELSE vd)
    /\ durIn' = DurationInputs(sub, vd)
    /\ hasText' = FALSE
    /\ ovGen' = "none"
    /\ ovFile' = "none"
    /\ hasOverlay' = FALSE
    /\ imageBad' = FALSE
    /\ hasImage' = FALSE
    /\ inputs' = <<"video">>
    /\ inputIdx' = NoIdx
    /\ stages' = << >>
    /\ mapVideo' = ""
    /\ mapAudio' = -1
    /\ win' = NoWin
    /\ Launch("demo", EncoderTimeout("demo", dur'))
    /\ UNCHANGED <<cvars, trimArgs>>
    /\ UNCHANGED <<avars, pvars, xvars>>

StartConcatMp(segs) ==
    /\ pc = "idle"
    /\ LET sorted == SortByOrder(Collected(segs))
       IN  /\ segMeta' = SegmentMetadata(sorted)
           /\ concatList' = ConcatListOf(sorted)
           /\ segFiles' = SegFilesOf(sorted)
    /\ segsIn' = Collected(segs)
    /\ ovFile' = "none"
    /\ Launch("concat_mp", EncoderTimeout("concat_mp", 0))
    /\ UNCHANGED <<gvars, finalDur, finalProbed, qrIntervals, trimArgs>>
    /\ UNCHANGED <<avars, pvars, xvars>>

\* concatenate_videos (JSON body): the segments are sorted, those that carry
\* video_data are written as segment_<i>.mp4 and listed, and the encoder is
\* started.
StartConcat(segs) ==
    /\ pc = "idle"
    /\ \E i \in DOMAIN segs : segs[i].data
    /\ LET sorted == SortByOrder(Collected(segs))
       IN  /\ segMeta' = JsonSegmentMetadata(sorted)
           /\ concatList' = JsonConcatListOf(sorted)
           /\ segFiles' = JsonSegFilesOf(sorted)
    /\ segsIn' = Collected(segs)
    /\ ovFile' = "none"
    /\ Launch("concat", EncoderTimeout("concat", 0))
    /\ UNCHANGED <<gvars, finalDur, finalProbed, qrIntervals, trimArgs>>
    /\ UNCHANGED <<avars, pvars, xvars>>

\* concatenate_videos: no segment carries video_data; the HTTPException(400)
\* raised inside the try block reaches "except Exception", which cleans up
\* and answers 500.
ConcatNoValidSegments(segs) ==
    /\ pc = "idle"
    /\ \A i \in DOMAIN segs : ~segs[i].data
    /\ ep' = "concat"
    /\ segsIn' = Collected(segs)
    /\ Fail("concat", "unexpected")
    /\ UNCHANGED <<gvars, segMeta, concatList, segFiles, finalDur, finalProbed, qrIntervals,
                   trimArgs, outFile, rc, child, timeoutSecs>>
    /\ UNCHANGED <<avars, pvars, xvars>>

\* Validation fails before temp_dir is created (wrong content type or file
\* name, no segment uploaded): the handler raises HTTPException(400).
Reject(e) ==
    /\ pc = "idle"
    /\ ep' = e
    /\ pc' = "responded"
    /\ resp' = "error"
    /\ errKind' = "validation"
    /\ errDiag' = FALSE
    /\ UNCHANGED <<gvars, cvars, ovFile, trimArgs, tempDir, outFile, respFile, bgTasks,
                   bgRan, cleanupCalls, rc, child, timeoutSecs>>
    /\ UNCHANGED <<avars, pvars, xvars>>

\* Something raises between mkdtemp and the start of the encoder (a write,
\* a download, a probe): the handler's outer except clause runs.
SetupException(e) ==
    /\ pc = "idle"
    /\ ep' = e
    /\ Fail(e, "unexpected")
    /\ UNCHANGED <<gvars, cvars, trimArgs, outFile, rc, child, timeoutSecs>>
    /\ UNCHANGED <<avars, pvars, xvars>>

\* The encoder exits non-zero.
EncoderFails ==
    /\ pc = "encoding"
    /\ child' = "reaped"
    /\ rc' = 1
    /\ Fail(ep, "failed")
    /\ UNCHANGED <<ep, gvars, cvars, trimArgs, outFile, timeoutSecs>>
    /\ UNCHANGED <<avars, pvars, xvars>>

\* The encoder exits 0 without writing output_path, and the handler tests it.
EncoderNoOutput ==
    /\ pc = "encoding"
    /\ ChecksOutput(ep)
    /\ child' = "reaped"
    /\ rc' = 0
    /\ Fail(ep, "missing")
    /\ UNCHANGED <<ep, gvars, cvars, trimArgs, outFile, timeoutSecs>>
    /\ UNCHANGED <<avars, pvars, xvars>>

\* communicate(timeout=...) raises TimeoutExpired: kill, communicate, error.
EncoderTimesOut ==
    /\ pc = "encoding"
    /\ timeoutSecs # NoTimeout
    /\ child' = "reaped"
    /\ rc' = Killed
    /\ Fail(ep, "timeout")
    /\ UNCHANGED <<ep, gvars, cvars, trimArgs, outFile, timeoutSecs>>
    /\ UNCHANGED <<avars, pvars, xvars>>

\* The encoder exits 0 and wrote output_path; it cannot when the image it is
\* given does not decode.
EncoderSucceeds ==
    /\ pc = "encoding"
    /\ ep \in {"announcement", "how_it_works", "persona", "demo", "trim", "concat"}
    /\ ~imageBad
    /\ child' = "reaped"
    /\ rc' = 0
    /\ outFile' = TRUE
    /\ Succeed(ep, "output", TRUE, FALSE)
    /\ UNCHANGED <<ep, gvars, cvars, trimArgs, timeoutSecs>>
    /\ UNCHANGED <<avars, pvars, xvars>>

\* intro and closing: a zero exit is followed by the QR banner pass, which
\* can write its output only from an input that exists. intro moves that
\* output onto output_path, closing returns the path of the pass's output.
EncoderSucceedsQr(produced, q) ==
    /\ pc = "encoding"
    /\ ep \in {"intro", "closing"}
    /\ ChecksOutput(ep) => produced
    /\ q = "applied" => produced
    /\ child' = "reaped"
    /\ rc' = 0
    /\ outFile' = produced
    /\ Succeed(ep, IF q = "applied" /\ ep = "closing" THEN "qr" ELSE "output",
                produced, q = "applied")
    /\ UNCHANGED <<ep, gvars, cvars, trimArgs, timeoutSecs>>
    /\ UNCHANGED <<avars, pvars, xvars>>

\* concatenate_videos_multipart after a zero exit with output: the QR
\* intervals are computed, the watermark pass runs, the file is returned.
ConcatSucceeds(probed, wm) ==
    /\ pc = "encoding"
    /\ ep = "concat_mp"
    /\ child' = "reaped"
    /\ rc' = 0
    /\ outFile' = TRUE
    /\ finalProbed' = probed
    /\ finalDur' = FinalVideoDuration(probed, OutputDuration(concatList, segFiles),
                                      TotalSegmentDuration(segMeta))
    /\ qrIntervals' = QrIntervals(segMeta, finalDur')
    /\ Succeed(ep, IF wm = "written" THEN "watermarked" ELSE "output",
                TRUE, wm = "written")
    /\ UNCHANGED <<ep, gvars, segsIn, segMeta, concatList, segFiles, trimArgs, timeoutSecs>>
    /\ UNCHANGED <<avars, pvars, xvars>>

\* The background task registered by the handler runs after the response.
BackgroundCleanup ==
    /\ pc = "responded"
    /\ resp = "file"
    /\ bgTasks > 0
    /\ ~bgRan
    /\ bgRan' = TRUE
    /\ tempDir' = CleanupTempPath(tempDir)
    /\ ovFile' = OverlayAfterCleanup(ep, ovFile)
    /\ UNCHANGED <<ep, pc, gvars, cvars, trimArgs, outFile, resp, errKind, errDiag, respFile,
                   bgTasks, cleanupCalls, rc, child, timeoutSecs>>
    /\ UNCHANGED <<avars, pvars, xvars>>

\* trim_video: start < 0 or end <= start is rejected before temp_dir exists.
TrimRejected(s, e) ==
    /\ pc = "idle"
    /\ s < 0 \/ e <= s
    /\ ep' = "trim"
    /\ pc' = "responded"
    /\ resp' = "error"
    /\ errKind' = "validation"
    /\ errDiag' = FALSE
    /\ trimArgs' = [NoTrim EXCEPT !.start = s, !.end = e]
    /\ UNCHANGED <<gvars, cvars, ovFile, tempDir, outFile, respFile, bgTasks, bgRan,
                   cleanupCalls, rc, child, timeoutSecs>>
    /\ UNCHANGED <<avars, pvars, xvars>>

\* trim_video saves the upload and starts ffprobe.
StartTrim(s, e) ==
    /\ pc = "idle"
    /\ ~(s < 0 \/ e <= s)
    /\ ep' = "trim"
    /\ pc' = "probing"
    /\ tempDir' = "exists"
    /\ child' = "running"
    /\ rc' = NoExit
    /\ timeoutSecs' = TrimProbeTimeout
    /\ trimArgs' = [NoTrim EXCEPT !.start = s, !.end = e]
    /\ UNCHANGED <<gvars, cvars, ovFile, outFile, resp, errKind, errDiag, respFile, bgTasks, bgRan,
                   cleanupCalls>>
    /\ UNCHANGED <<avars, pvars, xvars>>

\* ffprobe exits 0 with a duration d: end is clamped, the encoder is started.
ProbeExits(d) ==
    /\ pc = "probing"
    /\ LET end == IF trimArgs.end > d THEN d ELSE trimArgs.end
       IN  trimArgs' = [trimArgs EXCEPT !.end = end, !.duration = d,
                                        !.len = end - trimArgs.start]
    /\ pc' = "encoding"
    /\ child' = "running"
    /\ rc' = NoExit
    /\ timeoutSecs' = EncoderTimeout("trim", 0)
    /\ UNCHANGED <<ep, gvars, cvars, ovFile, tempDir, outFile, resp, errKind, errDiag, respFile,
                   bgTasks, bgRan, cleanupCalls>>
    /\ UNCHANGED <<avars, pvars, xvars>>

\* ffprobe exits non-zero: cleanup, HTTPException.
ProbeFails ==
    /\ pc = "probing"
    /\ child' = "reaped"
    /\ rc' = 1
    /\ Fail(ep, "failed")
    /\ UNCHANGED <<ep, gvars, cvars, trimArgs, outFile, timeoutSecs>>
    /\ UNCHANGED <<avars, pvars, xvars>>

\* The wait on ffprobe times out: process.kill(), cleanup, HTTPException;
\* the handler does not wait on the killed child.
ProbeTimesOut ==
    /\ pc = "probing"
    /\ child' = "killed"
    /\ rc' = NoExit
    /\ Fail(ep, "timeout")
    /\ UNCHANGED <<ep, gvars, cvars, trimArgs, outFile, timeoutSecs>>
    /\ UNCHANGED <<avars, pvars, xvars>>

\* A request is taken only by an idle handler; the later steps belong to the
\* request in progress.
Next ==
    \/ pc = "idle" /\
          \E txt \in BOOLEAN, og \in OverlayOutcomes, bad \in BOOLEAN, sub \in Submitted,
             pr \in Probed : StartAnnouncement(txt, og, bad, sub, pr)
    \/ pc = "idle" /\
          \E txt \in BOOLEAN, og \in OverlayOutcomes, bad \in BOOLEAN, img \in BOOLEAN, sub \in Submitted, pr \in Probed :
              StartHowItWorks(txt, og, bad, img, sub, pr)
    \/ pc = "idle" /\
          \E txt \in BOOLEAN, og \in OverlayOutcomes, bad \in BOOLEAN, sub \in Submitted,
             pr \in Probed : StartPersona(txt, og, bad, sub, pr)
    \/ pc = "idle" /\
          \E txt \in BOOLEAN, og \in OverlayOutcomes, sub \in Submitted, pr \in Probed : StartClosing(txt, og, sub, pr)
    \/ pc = "idle" /\ \E txt \in BOOLEAN, og \in OverlayOutcomes, vd \in VideoProbed : StartIntro(txt, og, vd)
    \/ pc = "idle" /\ \E sub \in Submitted, vd \in VideoProbed : StartDemo(sub, vd)
    \/ pc = "idle" /\
          \E n \in 1..MaxSegs : \E segs \in [1..n -> SegChoices] : StartConcatMp(segs)
    \/ pc = "idle" /\
          \E n \in 1..MaxSegs : \E segs \in [1..n -> JsonSegChoices] : StartConcat(segs)
    \/ pc = "idle" /\
          \E n \in 1..MaxSegs : \E segs \in [1..n -> JsonSegChoices] : ConcatNoValidSegments(segs)
    \/ IntroOverlayRaises
    \/ \E e \in TemplateEps \cup {"concat_mp", "concat"} : Reject(e)
    \/ \E e \in TemplateEps \cup {"concat_mp", "concat", "trim"} : SetupException(e)
    \/ EncoderFails
    \/ EncoderNoOutput
    \/ EncoderTimesOut
    \/ EncoderSucceeds
    \/ \E produced \in BOOLEAN, q \in QrPassOutcomes : EncoderSucceedsQr(produced, q)
    \/ \E probed \in BOOLEAN, wm \in WatermarkOutcomes : ConcatSucceeds(probed, wm)
    \/ BackgroundCleanup
    \/ \E s \in -1..MaxTrim, e \in 0..MaxTrim : TrimRejected(s, e)
    \/ \E s \in -1..MaxTrim, e \in 0..MaxTrim : StartTrim(s, e)
    \/ \E d \in 1..MaxTrim : ProbeExits(d)
    \/ ProbeFails
    \/ ProbeTimesOut

Spec == Init /\ [][Next]_vars

\* ------------------------------------------------------------- properties
GraphBuilt == pc # "idle" /\ stages # << >>

\* Every [N:v] reference of the graph, and the audio -map index, addresses
\* the position of the input list that holds the artifact it is meant to read.
RefsDenoteArtifacts ==
    /\ \A i \in DOMAIN stages : \A j \in DOMAIN stages[i].ins :
          LET r == stages[i].ins[j]
          IN  r.k = "in" => (r.n + 1 \in DOMAIN inputs /\ inputs[r.n + 1] = r.want)
    /\ mapAudio + 1 \in DOMAIN inputs
    /\ inputs[mapAudio + 1] = "audio"

\* C1: in render_announcement, with and without a text overlay, every stream
\* reference [N:v] of the emitted filter graph and the audio -map index denote
\* the input at position N of the emitted -i list that holds the intended
\* artifact (image, Wave.png, highlight.png, overlay PNG, audio).
C1_AnnouncementRefsDenoteArtifacts ==
    (ep = "announcement" /\ GraphBuilt) => RefsDenoteArtifacts

\* C2: in render_how_it_works, for each combination of overlay and image, the
\* indices assigned to the overlay, image, audio, wave and highlight inputs are
\* distinct, contiguous from 0, equal to the position of the file in the
\* emitted input list, and no stage or -map references an unassigned index.
C2_HiwIndicesConsistent ==
    (ep = "how_it_works" /\ GraphBuilt) =>
        LET assigned == DOMAIN inputIdx
        IN  /\ assigned = {"audio", "wave", "highlight"}
                          \cup (IF hasOverlay THEN {"overlay"} ELSE {})
                          \cup (IF hasImage THEN {"image"} ELSE {})
            /\ \A a, b \in assigned : a # b => inputIdx[a] # inputIdx[b]
            /\ {inputIdx[a] : a \in assigned} = 0..(Cardinality(assigned) - 1)
            /\ Len(inputs) = Cardinality(assigned)
            /\ \A a \in assigned : inputs[inputIdx[a] + 1] = a
            /\ \A i \in DOMAIN stages : \A j \in DOMAIN stages[i].ins :
                  LET r == stages[i].ins[j]
                  IN  r.k = "in" => (r.want \in assigned /\ inputIdx[r.want] = r.n)
            /\ inputIdx["audio"] = mapAudio

\* The image shifts every later index and no overlay precedes it.
C2_Witness ==
    /\ ep = "how_it_works"
    /\ pc = "encoding"
    /\ ~hasOverlay
    /\ hasImage
    /\ inputIdx["image"] = 0
    /\ inputIdx["highlight"] = 3

\* C3: for every duration > 0, every animation window render_announcement
\* computes from the duration (image slide-out, text visibility, text hold,
\* text slide-out) satisfies 0 <= start < end <= duration.
C3_AnnouncementWindowsWellFormed ==
    (ep = "announcement" /\ GraphBuilt /\ dur > 0) =>
        \A n \in DOMAIN win :
            /\ 0 <= win[n][1]
            /\ win[n][1] < win[n][2]
            /\ win[n][2] <= dur

\* The references made by stage i, and by every stage of the graph.
RefsOfStage(i) == {stages[i].ins[j] : j \in DOMAIN stages[i].ins}
RefSlots == UNION { {<<i, j>> : j \in DOMAIN stages[i].ins} : i \in DOMAIN stages }

Labels ==
    {stages[i].out : i \in DOMAIN stages}
    \cup {stages[p[1]].ins[p[2]].l :
            p \in {q \in RefSlots : stages[q[1]].ins[q[2]].k = "lab"}}

Producers(l) == {i \in DOMAIN stages : stages[i].out = l}
Consumers(l) == {p \in RefSlots : stages[p[1]].ins[p[2]] = LabRef(l)}

\* The labels the stage producing l reads, directly or through other stages.
RECURSIVE LabelsUnder(_)
LabelsUnder(l) ==
    LET direct == UNION { {r.l : r \in {x \in RefsOfStage(i) : x.k = "lab"}} :
                            i \in Producers(l) }
    IN  direct \cup UNION {LabelsUnder(m) : m \in direct}

\* The input artifacts that reach label l.
ArtifactsUnder(l) ==
    UNION { {r.want : r \in {x \in RefsOfStage(i) : x.k = "in"}} :
              i \in UNION {Producers(m) : m \in LabelsUnder(l) \cup {l}} }

\* C4: for announcement, how-it-works, persona and closing and every
\* combination of optional layers, the label passed to -map is produced by
\* exactly one stage and is the topmost composite (every other layer lies
\* under it, the text overlay exactly when one is present), and every other
\* label is produced by exactly one stage and consumed by exactly one stage.
C4_SingleOutputLabel ==
    (ep \in {"announcement", "how_it_works", "persona", "closing"} /\ GraphBuilt) =>
        /\ Cardinality(Producers(mapVideo)) = 1
        /\ Consumers(mapVideo) = {}
        /\ \A l \in Labels \ {mapVideo} :
              /\ Cardinality(Producers(l)) = 1
              /\ Cardinality(Consumers(l)) = 1
              /\ l \in LabelsUnder(mapVideo)
        /\ ("overlay" \in ArtifactsUnder(mapVideo)) <=> hasOverlay

\* closing with a text overlay: the text composite is the mapped label.
C4_Witness ==
    /\ ep = "closing"
    /\ pc = "encoding"
    /\ hasOverlay
    /\ mapVideo = "final"
    /\ "highlight_video" \in LabelsUnder("final")

ConcatAnswered == ep = "concat_mp" /\ resp = "file"

\* C5: when the first (intro) and last (closing) segments of the sorted
\* timeline have known durations a and c and the output duration is T, the
\* QR-visible intervals are exactly [(0, a), (T - c, T)], whatever segments
\* were uploaded and whatever order values they carry.
C5_QrIntervalsAreIntroAndClosing ==
    (/\ ConcatAnswered
     /\ finalProbed
     /\ segMeta[1].duration # Unknown
     /\ segMeta[Len(segMeta)].duration # Unknown) =>
        qrIntervals = << <<0, segMeta[1].duration>>,
                         <<finalDur - segMeta[Len(segMeta)].duration, finalDur>> >>

\* C6: an interval whose segment duration (or, for the closing interval, the
\* output duration) could not be obtained is omitted, not computed from a
\* substituted or partial value, and every interval produced satisfies
\* 0 <= start <= end <= output duration.
C6_QrIntervalOmittedWhenUnknown ==
    ConcatAnswered =>
        LET known(o) == \E i \in DOMAIN segMeta :
                            segMeta[i].order = o /\ segMeta[i].duration # Unknown
            nIntro == IF known(IntroOrder) THEN 1 ELSE 0
            nClosing == IF known(ClosingOrder) /\ finalProbed THEN 1 ELSE 0
        IN  /\ Len(qrIntervals) = nIntro + nClosing
            /\ \A k \in DOMAIN qrIntervals :
                  /\ 0 <= qrIntervals[k][1]
                  /\ qrIntervals[k][1] <= qrIntervals[k][2]
                  /\ qrIntervals[k][2] <= OutputDuration(concatList, segFiles)

\* C7: every template render request that created a scratch directory has it
\* removed: on any failure before the error is returned, on success by a
\* removal scheduled to run after the response.
C7_ScratchDirRemovedOrScheduled ==
    (ep \in TemplateEps /\ pc = "responded" /\ tempDir # "none") =>
        /\ resp = "error" => tempDir = "removed"
        /\ resp = "file" => bgTasks = 1

\* C8: whenever an endpoint returns a success file response, cleanup_temp_path
\* was not called on the scratch directory before the return, the file the
\* response points to exists in that directory, and the directory is removed
\* only by the background task registered before returning.
C8_FileResponseServedFromLiveDir ==
    resp = "file" =>
        /\ cleanupCalls = 0
        /\ respFile.exists
        /\ ~bgRan => tempDir = "exists"
        /\ tempDir = "removed" => bgRan

\* C9: at every call site that runs an external process under a timeout, the
\* child is killed and then waited on before the timeout error is raised, so
\* a request that ends in a timeout error leaves no child running or unreaped.
C9_TimedOutChildIsReaped ==
    (resp = "error" /\ errKind = "timeout") => child = "reaped"

\* C10: every encoder invocation of a render request is bounded by a timeout
\* (in render_demo max(90, min(600, int(3 * duration) + 30)) seconds), so a
\* non-terminating encoder ends in a timeout error.
C10_EncoderWaitIsBounded ==
    (ep \in TemplateEps /\ pc = "encoding") =>
        /\ timeoutSecs # NoTimeout
        /\ (ep = "demo" /\ dur > 0) =>
              timeoutSecs = Max(90, Min(600, ((3 * dur) \div 10) + 30))

\* C11: for every render endpoint, a file response is returned only if the
\* encoder exited with code 0 and the output file exists afterwards; a
\* non-zero exit yields an error response carrying the captured encoder
\* diagnostics, and a zero exit with no output file yields an output-missing
\* error response.
C11_SuccessOnlyWithOutput ==
    (ep \in TemplateEps /\ pc = "responded" /\ rc # NoExit) =>
        /\ resp = "file" => (rc = 0 /\ outFile)
        /\ rc \notin {0, Killed} => (resp = "error" /\ errKind = "failed" /\ errDiag)
        /\ (rc = 0 /\ ~outFile) => (resp = "error" /\ errKind = "missing")

\* The input list, stages and maps the endpoint emits when no text is given.
NoOverlayOutput(e, img) ==
    CASE e = "announcement" ->
            [inputs |-> AnnouncementInputs(FALSE), stages |-> AnnouncementFilterParts(FALSE),
             mapVideo |-> AnnouncementMapVideo(FALSE), mapAudio |-> AnnouncementMapAudio(FALSE)]
      [] e = "how_it_works" ->
            [inputs |-> HiwInputs(FALSE, img), stages |-> HiwFilterParts(FALSE, img),
             mapVideo |-> HiwMapVideo, mapAudio |-> HiwAudioIdx(FALSE, img)]
      [] e = "persona" ->
            [inputs |-> PersonaInputs(FALSE), stages |-> PersonaFilterParts(FALSE),
             mapVideo |-> PersonaMapVideo(FALSE), mapAudio |-> PersonaMapAudio(FALSE)]
      [] e = "closing" ->
            [inputs |-> ClosingInputs(FALSE), stages |-> ClosingFilterParts(FALSE),
             mapVideo |-> ClosingMapVideo(FALSE), mapAudio |-> ClosingMapAudio]
      [] e = "intro" ->
            [inputs |-> <<"video">>, stages |-> IntroFilterParts(FALSE),
             mapVideo |-> "", mapAudio |-> -1]

OverlayEps == {"intro", "announcement", "how_it_works", "persona", "closing"}

\* C12: in every template endpoint that rasterizes a text overlay, when the
\* overlay generation raises or yields a missing or empty file, the request
\* proceeds exactly as in the no-overlay case (no overlay input, no overlay
\* stage, the encoder still run) and is never failed because of the overlay.
C12_OverlayFailureFallsBack ==
    (ep \in OverlayEps /\ hasText /\ ovGen \in {"raised", "missing", "empty"}) =>
        /\ ~hasOverlay
        /\ pc = "encoding" \/ (pc = "responded" /\ rc # NoExit)
        /\ LET plain == NoOverlayOutput(ep, hasImage)
           IN  /\ inputs = plain.inputs
               /\ stages = plain.stages
               /\ mapVideo = plain.mapVideo
               /\ mapAudio = plain.mapAudio

\* C13: in announcement, persona and how-it-works, a zero-byte or undecodable
\* image whose declared content type is image/* is rejected with a validation
\* error before any external process is started for the request.
C13_BadImageRejectedEarly ==
    (ep \in {"announcement", "persona", "how_it_works"} /\ imageBad) =>
        /\ child = "none"
        /\ pc = "responded" => (resp = "error" /\ errKind = "validation")

\* ---------------------------------------------------------------------------
\* Audio enhancer (utils/audio_enhancer.py): the range arithmetic that decides
\* which parts of a narration are cut.  Times are milliseconds; a range is a
\* pair <<start, end>>; a track is the sequence of the pieces <<from, to>> of
\* the recording it is made of, in playing order.
\* ---------------------------------------------------------------------------

MaxRanges == 2
MaxWords == 2

\* Range coordinates offered to merge_ranges and strip_segments.
RangeTimes == {-100, 0, 500, 1000, 1500}
\* Track lengths offered to strip_segments.
TrackLens == {0, 500, 1000, 1500, 2000}
\* Word boundaries of a transcript, the texts of its words, the configured
\* filler terms and the configured pause gaps.
WordStarts == {0, 500, 900, 1300}
WordEnds == {500, 700, 1900}
WordTexts == {"um", " Um", "team"}
FillerTermSets == {{}, {"Um ", "uh"}}
PauseGaps == {0, 600}

SeqsUpTo(S, n) == UNION {[1..k -> S] : k \in 0..n}
RangeLists == SeqsUpTo(RangeTimes \X RangeTimes, MaxRanges)
\* tests/test_audio_enhancer.py: the merge example
ExampleRanges == << <<0, 100>>, <<90, 200>>, <<250, 300>>, <<260, 310>> >>
Words == [text : WordTexts, start : WordStarts, end : WordEnds]
Transcripts == SeqsUpTo(Words, MaxWords)

\* len(cleaned) >= 1000
MinCleanedMs == 1000

\* sanitized: the ranges with end > start, clamped to start at 0 or later.
Sanitized(ranges) ==
    LET kept == SelectSeq(ranges, LAMBDA r : r[2] > r[1])
    IN  [i \in DOMAIN kept |->
            <<Max(0, kept[i][1]), Max(Max(0, kept[i][1]), kept[i][2])>>]

\* sanitized.sort(key=start) is stable.
RECURSIVE InsertByStart(_, _)
InsertByStart(s, x) ==
    IF s = << >> THEN <<x>>
    ELSE IF Head(s)[1] <= x[1] THEN <<Head(s)>> \o InsertByStart(Tail(s), x)
    ELSE <<x>> \o s

RECURSIVE SortByStart(_)
SortByStart(s) ==
    IF s = << >> THEN << >>
    ELSE InsertByStart(SortByStart(SubSeq(s, 1, Len(s) - 1)), s[Len(s)])

\* Does the next range join the current one?
Joins(start, currentEnd) == start <= currentEnd

\* The loop over sanitized[1:], carrying (current_start, current_end).
RECURSIVE FuseRanges(_, _, _)
FuseRanges(rest, current, merged) ==
    IF rest = << >> THEN Append(merged, current)
    ELSE IF Joins(Head(rest)[1], current[2])
         THEN FuseRanges(Tail(rest), <<current[1], Max(current[2], Head(rest)[2])>>, merged)
         ELSE FuseRanges(Tail(rest), Head(rest), Append(merged, current))

MergeRanges(ranges) ==
    LET sanitized == SortByStart(Sanitized(ranges))
    IN  IF sanitized = << >> THEN << >>
        ELSE FuseRanges(Tail(sanitized), Head(sanitized), << >>)

\* An AudioSegment of the given length, nothing cut.
WholeTrack(total) == IF total > 0 THEN << <<0, total>> >> ELSE << >>

RECURSIVE TrackLen(_)
TrackLen(track) ==
    IF track = << >> THEN 0 ELSE (Head(track)[2] - Head(track)[1]) + TrackLen(Tail(track))

\* The loop of strip_segments and the tail it appends after the loop.
RECURSIVE StripLoop(_, _, _, _)
StripLoop(rest, total, cursor, cleaned) ==
    IF rest = << >>
    THEN IF cursor < total THEN Append(cleaned, <<cursor, total>>) ELSE cleaned
    ELSE LET startClamped == Max(0, Min(Head(rest)[1], total))
             endClamped == Max(startClamped, Min(Head(rest)[2], total))
         IN  StripLoop(Tail(rest), total, Max(cursor, endClamped),
                       IF startClamped > cursor
                       THEN Append(cleaned, <<cursor, startClamped>>)
                       ELSE cleaned)

\* A guard that falls back to the original at the floor itself.
KeepsCleanedStrict(len) == len > MinCleanedMs

\* return cleaned if len(cleaned) >= 1000 else audio
KeepsCleaned(len) == len >= MinCleanedMs

StripSegments(total, ranges) ==
    IF ranges = << >> THEN WholeTrack(total)
    ELSE LET cleaned == StripLoop(MergeRanges(ranges), total, 0, << >>)
         IN  IF KeepsCleaned(TrackLen(cleaned)) THEN cleaned ELSE WholeTrack(total)

\* str.strip().lower() on the texts and terms of the model.
Normalize(text) ==
    CASE text = " Um" -> "um"
      [] text = "Um " -> "um"
      [] OTHER -> text

FillerLookup(terms) == {Normalize(t) : t \in terms}

\* int(word.get("start") or 0), int(word.get("end") or start)
WordStart(w) == w.start
WordEnd(w) == IF w.end = 0 THEN WordStart(w) ELSE w.end

IsFiller(w, lookup) == lookup # {} /\ Normalize(w.text) \in lookup
\* A pause test that wants the gap to exceed the threshold.
IsPauseStrict(hasPrev, prevEnd, start, gap) == hasPrev /\ gap # 0 /\ start - prevEnd > gap

\* previous_end is not None and pause_gap_ms and start - previous_end >= pause_gap_ms
IsPause(hasPrev, prevEnd, start, gap) == hasPrev /\ gap # 0 /\ start - prevEnd >= gap

RECURSIVE ReductionLoop(_, _, _, _, _, _)
ReductionLoop(words, lookup, gap, hasPrev, prevEnd, ranges) ==
    IF words = << >> THEN ranges
    ELSE LET w == Head(words)
             withFiller == IF IsFiller(w, lookup)
                           THEN Append(ranges, <<WordStart(w), WordEnd(w)>>)
                           ELSE ranges
             withPause == IF IsPause(hasPrev, prevEnd, WordStart(w), gap)
                          THEN Append(withFiller, <<prevEnd, WordStart(w)>>)
                          ELSE withFiller
         IN  ReductionLoop(Tail(words), lookup, gap, TRUE, WordEnd(w), withPause)

BuildReductionRanges(words, terms, gap) ==
    MergeRanges(ReductionLoop(words, FillerLookup(terms), gap, FALSE, 0, << >>))

rvars == <<ep, pc, gvars, lvars, cvars, trimArgs, pvars, xvars>>

CallMergeRanges(ranges) ==
    /\ fn = "none"
    /\ fn' = "merge_ranges"
    /\ fnArgs' = [ranges |-> ranges]
    /\ fnOut' = MergeRanges(ranges)
    /\ UNCHANGED rvars

\* merge_ranges applied to what merge_ranges returned (strip_segments does so
\* with the ranges build_reduction_ranges hands it).
CallMergeRangesAgain ==
    /\ fn = "merge_ranges"
    /\ fn' = "merge_ranges_again"
    /\ fnArgs' = [ranges |-> fnOut]
    /\ fnOut' = MergeRanges(fnOut)
    /\ UNCHANGED rvars

CallStripSegments(total, ranges) ==
    /\ fn = "none"
    /\ fn' = "strip_segments"
    /\ fnArgs' = [total |-> total, ranges |-> ranges]
    /\ fnOut' = StripSegments(total, ranges)
    /\ UNCHANGED rvars

CallBuildReductionRanges(words, terms, gap) ==
    /\ fn = "none"
    /\ fn' = "build_reduction_ranges"
    /\ fnArgs' = [words |-> words, terms |-> terms, gap |-> gap]
    /\ fnOut' = BuildReductionRanges(words, terms, gap)
    /\ UNCHANGED rvars

\* A function is applied once to the arguments drawn; the guard stands in
\* front of each draw so that no argument is enumerated after the call.
NextAudio ==
    \/ fn = "none" /\ \E ranges \in RangeLists \union {ExampleRanges} : CallMergeRanges(ranges)
    \/ CallMergeRangesAgain
    \/ fn = "none" /\ \E total \in TrackLens, ranges \in RangeLists : CallStripSegments(total, ranges)
    \/ fn = "none" /\ \E words \in Transcripts, terms \in FillerTermSets, gap \in PauseGaps :
           CallBuildReductionRanges(words, terms, gap)

SpecAudio == Init /\ [][NextAudio]_vars

\* C14: merging an already merged list changes nothing, for every list of
\* integer pairs (unsorted, end <= start and negative coordinates included).
C14_MergeRangesIdempotent ==
    fn = "merge_ranges_again" => fnOut = fnArgs.ranges

\* Is t inside one of the ranges that have end > start?
Covers(ranges, t) == \E i \in DOMAIN ranges : ranges[i][2] > ranges[i][1] /\ ranges[i][1] <= t /\ t < ranges[i][2]
\* Every coordinate of the list: between two neighbouring ones no range
\* starts or ends.
Coordinates(ranges) == {ranges[i][1] : i \in DOMAIN ranges} \union {ranges[i][2] : i \in DOMAIN ranges}
SameUnion(a, b) == \A t \in Coordinates(a) \union Coordinates(b) : Covers(a, t) <=> Covers(b, t)
SortedApart(ranges) ==
    /\ \A i \in DOMAIN ranges : ranges[i][1] < ranges[i][2]
    /\ \A i \in DOMAIN ranges : i > 1 => ranges[i - 1][2] < ranges[i][1]

\* C15: merge_ranges returns ranges sorted by start, each with start < end,
\* pairwise disjoint and not touching, whose union is the union of the input
\* ranges that have end > start; [(0,100),(90,200),(250,300),(260,310)]
\* gives [(0,200),(250,310)].
C15_MergeRangesSortedDisjointUnion ==
    fn = "merge_ranges" =>
        /\ SortedApart(fnOut)
        /\ SameUnion(fnOut, fnArgs.ranges)
        /\ fnArgs.ranges = ExampleRanges => fnOut = << <<0, 200>>, <<250, 310>> >>

\* The points where the cover of a track of length total by the ranges can
\* change, and the cells between neighbouring points.
Cuts(total, ranges) == {p \in Coordinates(ranges) \union {0, total} : 0 <= p /\ p <= total}
NextCut(S, p) == CHOOSE q \in S : q > p /\ \A r \in S : r > p => q <= r
Cells(total, ranges) ==
    {<<p, NextCut(Cuts(total, ranges), p)>> : p \in Cuts(total, ranges) \ {total}}
RECURSIVE CellsLen(_)
CellsLen(S) ==
    IF S = {} THEN 0
    ELSE LET c == CHOOSE x \in S : TRUE IN (c[2] - c[1]) + CellsLen(S \ {c})
\* R: the time the ranges cover within the track.
CoveredWithin(total, ranges) ==
    CellsLen({c \in Cells(total, ranges) : Covers(ranges, c[1])})
\* The track consists of the parts the ranges leave, in their original order.
UnremovedInOrder(track, total, ranges) ==
    /\ \A i \in DOMAIN track : track[i][1] < track[i][2]
    /\ \A i \in DOMAIN track : i > 1 => track[i - 1][2] <= track[i][1]
    /\ \A c \in Cells(total, ranges) : Covers(track, c[1]) <=> ~Covers(ranges, c[1])

\* C16 as stated: the cut track is returned only when L - R is above 1000.
C16_StripSegmentsAboveFloor ==
    fn = "strip_segments" =>
        LET L == fnArgs.total
            R == CoveredWithin(fnArgs.total, fnArgs.ranges)
        IN  /\ L - R > MinCleanedMs =>
                (TrackLen(fnOut) = L - R /\ UnremovedInOrder(fnOut, L, fnArgs.ranges))
            /\ L - R <= MinCleanedMs => fnOut = WholeTrack(L)
            /\ TrackLen(fnOut) >= Min(L, MinCleanedMs)
            /\ fnArgs.ranges = << >> => fnOut = WholeTrack(L)

\* C16: strip_segments on a track of length L, R being the time the ranges
\* cover within the track, returns the unremoved parts in their original
\* order, L - R long, when L - R is at least 1000 ms, and the original track
\* otherwise; the result is never shorter than min(L, 1000), and an empty
\* range list returns the original track.
C16_StripSegmentsAtOrAboveFloor ==
    fn = "strip_segments" =>
        LET L == fnArgs.total
            R == CoveredWithin(fnArgs.total, fnArgs.ranges)
        IN  /\ L - R >= MinCleanedMs =>
                (TrackLen(fnOut) = L - R /\ UnremovedInOrder(fnOut, L, fnArgs.ranges))
            /\ L - R < MinCleanedMs => fnOut = WholeTrack(L)
            /\ TrackLen(fnOut) >= Min(L, MinCleanedMs)
            /\ fnArgs.ranges = << >> => fnOut = WholeTrack(L)

\* A track cut in two places down to exactly the floor.
C16_Witness ==
    /\ fn = "strip_segments"
    /\ fnArgs.total = 2000
    /\ CoveredWithin(fnArgs.total, fnArgs.ranges) = 1000
    /\ fnOut = << <<500, 1000>>, <<1500, 2000>> >>

\* The spans of the filler words of a transcript; a word that is no filler
\* stands as the empty range <<0, 0>>.
FillerSpans(words, terms) ==
    [i \in DOMAIN words |->
        IF \E t \in terms : Normalize(words[i].text) = Normalize(t)
        THEN <<words[i].start, words[i].end>> ELSE <<0, 0>>]
\* The gaps between consecutive words that are at least gap long; with
\* zeroOff a gap of 0 detects no pause at all.
PauseSpans(words, gap, zeroOff) ==
    [i \in 1..(Len(words) - 1) |->
        IF words[i + 1].start - words[i].end >= gap /\ (zeroOff => gap > 0)
        THEN <<words[i].end, words[i + 1].start>> ELSE <<0, 0>>]

\* C17 as stated: every gap of at least pause_gap_ms is cut, whatever
\* pause_gap_ms is.
C17_ReductionIsFillersAndGaps ==
    fn = "build_reduction_ranges" =>
        /\ SortedApart(fnOut)
        /\ SameUnion(fnOut, FillerSpans(fnArgs.words, fnArgs.terms)
                            \o PauseSpans(fnArgs.words, fnArgs.gap, FALSE))

\* C17: build_reduction_ranges returns the merged union of the span of
\* every word whose stripped, lower-cased text is a filler term and, when
\* pause_gap_ms is positive, of the gap between consecutive words that is at
\* least pause_gap_ms; nothing else contributes, and a filler next to
\* detected pauses is fused with them.
C17_ReductionIsFillersAndPositiveGaps ==
    fn = "build_reduction_ranges" =>
        /\ SortedApart(fnOut)
        /\ SameUnion(fnOut, FillerSpans(fnArgs.words, fnArgs.terms)
                            \o PauseSpans(fnArgs.words, fnArgs.gap, TRUE))

\* A pause of exactly the threshold followed by a filler: one fused range.
C17_Witness ==
    /\ fn = "build_reduction_ranges"
    /\ fnArgs.gap = 600
    /\ fnArgs.words = << [text |-> "team", start |-> 0, end |-> 700],
                         [text |-> " Um", start |-> 1300, end |-> 1900] >>
    /\ fnArgs.terms = {"Um ", "uh"}
    /\ fnOut = << <<700, 1900>> >>

\* ---------------------------------------------------------------------------
\* Two requests served by the one process at the same time.  Every handler
\* is a coroutine that yields where it awaits the uploads and once it has
\* returned its response, and there the steps of two requests interleave.  A path is a tuple; disk maps the paths that exist to what
\* was last written there.
\* ---------------------------------------------------------------------------

Requests == {1, 2}

\* name and title as typed (strings of characters); industry is left empty.
OverlayTexts ==
    { [name |-> << >>, title |-> << >>],
      [name |-> <<"a", "b">>, title |-> << >>],
      [name |-> <<"a">>, title |-> <<"b">>],
      [name |-> <<"c">>, title |-> << >>] }

\* has_overlay = bool(name or title or industry)
WantsOverlay(text) == text.name # << >> \/ text.title # << >>

\* tempfile.mkdtemp(prefix=...): a directory no other request has.
ScratchPath(r, name) == <<"scratch", r, name>>

\* hash(name + title + industry): equal for equal concatenations within the
\* one server process.
PersonaOverlayKey(text) == text.name \o text.title

\* Where the generators write the PNG: intro into the scratch directory,
\* persona into <tmp>/persona_overlays under the hash of its text, the
\* others into a NamedTemporaryFile of their own.
OverlayPath(e, r, text) ==
    CASE e = "intro" -> ScratchPath(r, "overlay.png")
      [] e = "persona" -> <<"persona_overlays", PersonaOverlayKey(text)>>
      [] OTHER -> <<"tmpfile", r>>

WriteFile(fs, path, content) ==
    [q \in DOMAIN fs \union {path} |-> IF q = path THEN content ELSE fs[q]]

\* The handler up to its first await past the uploads: scratch directory
\* made, inputs saved.
PairBegin(r, e, text) ==
    /\ reqs[r].at = "idle"
    /\ reqs' = [reqs EXCEPT ![r] = [@ EXCEPT !.ep = e, !.text = text, !.at = "saved"]]
    /\ disk' = WriteFile(disk, ScratchPath(r, "input"), <<"input", r>>)
    /\ touched' = touched \union {<<r, ScratchPath(r, "input"), "write">>}
    /\ UNCHANGED <<ep, pc, gvars, lvars, cvars, trimArgs, avars, xvars>>

\* From the last upload read to the return of the handler nothing suspends
\* (the generator coroutine has no await of its own, the encoder is waited
\* for synchronously): the generator renders the request's text and saves
\* the PNG, then the encoder reads the inputs and the PNG and writes the
\* output.
PairRender(r) ==
    /\ reqs[r].at = "saved"
    /\ LET wants == WantsOverlay(reqs[r].text)
           path == IF wants THEN OverlayPath(reqs[r].ep, r, reqs[r].text) ELSE << >>
           overlayAccess == IF wants THEN {<<r, path, "write">>, <<r, path, "read">>} ELSE {}
           withOverlay == IF wants THEN WriteFile(disk, path, reqs[r].text) ELSE disk
       IN  /\ reqs' = [reqs EXCEPT ![r] = [@ EXCEPT !.overlay = path, !.at = "encoded"]]
           /\ disk' = WriteFile(withOverlay, ScratchPath(r, "output"), <<"output", r>>)
           /\ touched' = touched \union overlayAccess
                           \union {<<r, ScratchPath(r, "input"), "read">>,
                                   <<r, ScratchPath(r, "output"), "write">>}
    /\ UNCHANGED <<ep, pc, gvars, lvars, cvars, trimArgs, avars, xvars>>

\* FileResponse streams the output.
PairRespond(r) ==
    /\ reqs[r].at = "encoded"
    /\ reqs' = [reqs EXCEPT ![r] = [@ EXCEPT !.at = "done"]]
    /\ touched' = touched \union {<<r, ScratchPath(r, "output"), "read">>}
    /\ UNCHANGED <<disk, ep, pc, gvars, lvars, cvars, trimArgs, avars, xvars>>

NextPair ==
    \/ \E r \in Requests : reqs[r].at = "idle" /\ \E e \in OverlayEps, text \in OverlayTexts : PairBegin(r, e, text)
    \/ \E r \in Requests : PairRender(r)
    \/ \E r \in Requests : PairRespond(r)

SpecPair == Init /\ [][NextPair]_vars

\* C18: of two requests running at the same time, under every
\* interleaving, no path is written by one and read or written by the other.
C18_NoPathSharedBetweenRequests ==
    \A a \in touched, b \in touched :
        (a[1] # b[1] /\ a[2] = b[2]) => (a[3] = "read" /\ b[3] = "read")

\* C19: once the scratch directory of a completed intro, announcement,
\* how-it-works, persona or closing request has been cleaned up, the overlay
\* PNG rasterized for the request exists no more.
C19_OverlayDiscardedWithRequest ==
    (ep \in OverlayEps /\ pc = "responded" /\ tempDir = "removed") => ovFile # "exists"

\* The content (slot of the request) each line of the concat list plays.
Played == [i \in DOMAIN concatList |-> segFiles[concatList[i]].slot]
\* The slots of the request that carry a video.
SuppliedSlots == {i \in DOMAIN segsIn : segsIn[i].data}

\* C20: in both concatenation endpoints the concat list plays the content
\* of each supplied segment exactly once, in non-decreasing order of the
\* order values, ties in submission order, even with duplicate order values.
C20_ConcatListPlaysEachSegmentOnce ==
    (ep \in {"concat", "concat_mp"} /\ pc = "encoding") =>
        /\ \A sl \in SuppliedSlots : Cardinality({i \in DOMAIN Played : Played[i] = sl}) = 1
        /\ \A i \in DOMAIN Played : Played[i] \in SuppliedSlots
        /\ \A i, j \in DOMAIN Played :
               i < j => \/ segsIn[Played[i]].order < segsIn[Played[j]].order
                        \/ /\ segsIn[Played[i]].order = segsIn[Played[j]].order
                           /\ Played[i] < Played[j]

\* ---------------------------------------------------------------------------
\* Watermark pass (utils/watermark_overlay.py).  Times are seconds; an
\* interval is a pair <<start, end>> whose bounds may be None.
\* ---------------------------------------------------------------------------

MaxIntervals == 2
\* "start is None or end is None"
NoneBound == -99
IntervalBounds == {NoneBound, -1, 0, 2}
IntervalLists == SeqsUpTo(IntervalBounds \X IntervalBounds, MaxIntervals)
\* Playback times at which the banner is looked at.
PlayTimes == -1..3

\* build_enable_expression: one between(t,start,end) clause per interval
\* that has both bounds and, after start = max(0, start) and
\* end = max(start, end), end > start.
RECURSIVE EnableClauses(_)
EnableClauses(intervals) ==
    IF intervals = << >> THEN << >>
    ELSE LET iv == Head(intervals)
             start == Max(0, iv[1])
             end == Max(start, iv[2])
         IN  IF iv[1] = NoneBound \/ iv[2] = NoneBound \/ end <= start
             THEN EnableClauses(Tail(intervals))
             ELSE <<<<start, end>>>> \o EnableClauses(Tail(intervals))

\* qr_overlay_active = qr_overlay_intervals is None or len(qr_overlay_intervals) > 0
QrOverlayActive(given, intervals) == ~given \/ Len(intervals) > 0

\* if qr_overlay_intervals: qr_enable_expr = build_enable_expression(...);
\* the expression is None when no clause was built.
QrEnableExpr(given, intervals) ==
    IF given /\ Len(intervals) > 0 THEN EnableClauses(intervals) ELSE << >>

\* if qr_enable_expr: overlay_filter += ":enable='...'"
HasEnable(expr) == expr # << >>

\* The logo used: the path passed in when it exists, else the first
\* standard location that exists, else none.
LogoResolved(arg, std) == arg = "exists" \/ std = "exists"

\* An index that does not look at the logo.
QrInputIndexFixed(logo) == 1
\* The index the QR banner gets in the -i list: input_index after the logo.
QrInputIndex(logo) == IF logo THEN 2 ELSE 1

WmInputs(logo, qr) ==
    <<"video">> \o (IF logo THEN <<"logo">> ELSE << >>) \o (IF qr THEN <<"qr">> ELSE << >>)

WmStages(logo, qr) ==
    << Stage(<<InRef(0, "video")>>, "vtxt") >>
    \o (IF logo
        THEN << Stage(<<InRef(1, "logo")>>, "logo"),
                Stage(<<LabRef("vtxt"), LabRef("logo")>>, "vlogo") >>
        ELSE << >>)
    \o (IF qr
        THEN << Stage(<<InRef(QrInputIndex(logo), "qr")>>, "qr_banner"),
                Stage(<<LabRef(IF logo THEN "vlogo" ELSE "vtxt"), LabRef("qr_banner")>>, "vqr") >>
        ELSE << >>)

\* current_label when the command is assembled.
WmMapLabel(logo, qr) == IF qr THEN "vqr" ELSE IF logo THEN "vlogo" ELSE "vtxt"

WmArgs(logoArg, logoStd, qrFile, videoOk, given, intervals) ==
    [logoArg |-> logoArg, logoStd |-> logoStd, qrFile |-> qrFile, videoOk |-> videoOk,
     given |-> given, intervals |-> intervals]

\* What stops the pass before the command is built, "" when nothing does:
\* the banner is looked for and measured only when the QR layer is active.
WmSetupError(a) ==
    IF ~QrOverlayActive(a.given, a.intervals) THEN ""
    ELSE IF a.qrFile = "absent" THEN "FileNotFoundError"
    ELSE IF ~a.videoOk \/ a.qrFile = "unreadable" THEN "RuntimeError"
    ELSE ""

\* apply_watermark_to_video up to the point where it raises or starts the
\* encoder.
WmStart(logoArg, logoStd, qrFile, videoOk, given, intervals) ==
    /\ wmk.at = "idle"
    /\ LET a == WmArgs(logoArg, logoStd, qrFile, videoOk, given, intervals)
           logo == LogoResolved(logoArg, logoStd)
           qr == QrOverlayActive(given, intervals)
           expr == QrEnableExpr(given, intervals)
       IN  IF WmSetupError(a) # ""
           THEN wmk' = [at |-> "raised", args |-> a, err |-> WmSetupError(a),
                        cause |-> "", started |-> FALSE, child |-> "none"]
           ELSE wmk' = [at |-> "encoding", args |-> a, err |-> "", cause |-> "",
                        started |-> TRUE, child |-> "running",
                        inputs |-> WmInputs(logo, qr),
                        stages |-> WmStages(logo, qr),
                        map |-> WmMapLabel(logo, qr),
                        enable |-> HasEnable(expr),
                        clauses |-> expr]
    /\ UNCHANGED <<ep, pc, gvars, lvars, cvars, trimArgs, avars, pvars, probe, anim, poll, enh>>

\* The encoder exits 0: output_video_path is returned.
WmEncoderSucceeds ==
    /\ wmk.at = "encoding"
    /\ wmk' = [wmk EXCEPT !.at = "returned", !.child = "reaped"]
    /\ UNCHANGED <<ep, pc, gvars, lvars, cvars, trimArgs, avars, pvars, probe, anim, poll, enh>>

\* The encoder exits non-zero (a logo it cannot decode is one cause):
\* CalledProcessError is raised.
WmEncoderFails(cause) ==
    /\ wmk.at = "encoding"
    /\ cause = "logo_unreadable" => "logo" \in {wmk.inputs[i] : i \in DOMAIN wmk.inputs}
    /\ wmk' = [wmk EXCEPT !.at = "raised", !.err = "CalledProcessError",
                          !.child = "reaped", !.cause = cause]
    /\ UNCHANGED <<ep, pc, gvars, lvars, cvars, trimArgs, avars, pvars, probe, anim, poll, enh>>

\* communicate(timeout=180) expires: the child is killed and reaped,
\* RuntimeError is raised.
WmEncoderTimesOut ==
    /\ wmk.at = "encoding"
    /\ wmk' = [wmk EXCEPT !.at = "raised", !.err = "RuntimeError", !.child = "reaped"]
    /\ UNCHANGED <<ep, pc, gvars, lvars, cvars, trimArgs, avars, pvars, probe, anim, poll, enh>>

NextWatermark ==
    \/ wmk.at = "idle" /\
          \E logoArg \in {"none", "missing", "exists"}, logoStd \in {"absent", "exists"},
             qrFile \in {"absent", "readable", "unreadable"}, videoOk \in BOOLEAN,
             given \in BOOLEAN, intervals \in IntervalLists :
                 (given \/ intervals = << >>)
                 /\ WmStart(logoArg, logoStd, qrFile, videoOk, given, intervals)
    \/ WmEncoderSucceeds
    \/ \E cause \in {"logo_unreadable", "other"} : WmEncoderFails(cause)
    \/ WmEncoderTimesOut

SpecWatermark == Init /\ [][NextWatermark]_vars

\* Is the banner on screen at playback time t?
BannerVisible(t) ==
    /\ "qr" \in {wmk.inputs[i] : i \in DOMAIN wmk.inputs}
    /\ wmk.enable => \E k \in DOMAIN wmk.clauses :
                         wmk.clauses[k][1] <= t /\ t <= wmk.clauses[k][2]

\* C21: the banner is shown throughout when the intervals are None, there
\* is no QR layer when they are an empty list, and with a non-empty list the
\* banner is visible at t only if t lies in a supplied interval with
\* 0 <= start < end (intervals with a None bound or end <= start give no
\* visibility).
C21_BannerVisibleOnlyInIntervals ==
    wmk.at = "encoding" =>
        LET a == wmk.args
        IN  /\ ~a.given => \A t \in PlayTimes : BannerVisible(t)
            /\ (a.given /\ a.intervals = << >>) => \A t \in PlayTimes : ~BannerVisible(t)
            /\ (a.given /\ a.intervals # << >>) =>
                  \A t \in PlayTimes :
                      BannerVisible(t) =>
                          \E i \in DOMAIN a.intervals :
                              /\ a.intervals[i][1] # NoneBound
                              /\ a.intervals[i][2] # NoneBound
                              /\ 0 <= a.intervals[i][1]
                              /\ a.intervals[i][1] < a.intervals[i][2]
                              /\ a.intervals[i][1] <= t
                              /\ t <= a.intervals[i][2]

\* The pass ended in an exception that a logo or banner file caused: the
\* encoder could not decode the logo, or the pass raised before the encoder
\* although the video itself could be measured.
WmAssetFailure ==
    /\ wmk.at = "raised"
    /\ \/ wmk.cause = "logo_unreadable"
       \/ ~wmk.started /\ (wmk.args.videoOk \/ wmk.err = "FileNotFoundError")

\* C22: a logo or QR banner that is missing or unreadable only removes its
\* layer; the one asset condition that fails the pass is a required QR
\* banner found nowhere, which raises FileNotFoundError before the encoder
\* is started.
C22_OnlyRequiredAbsentBannerFails ==
    /\ WmAssetFailure =>
          /\ wmk.err = "FileNotFoundError"
          /\ QrOverlayActive(wmk.args.given, wmk.args.intervals)
          /\ wmk.args.qrFile = "absent"
          /\ ~wmk.started
    /\ (wmk.at # "idle" /\ QrOverlayActive(wmk.args.given, wmk.args.intervals)
          /\ wmk.args.qrFile = "absent") =>
          (wmk.at = "raised" /\ wmk.err = "FileNotFoundError" /\ ~wmk.started)
    /\ (wmk.at = "encoding" /\ ~LogoResolved(wmk.args.logoArg, wmk.args.logoStd)) =>
          "logo" \notin {wmk.inputs[i] : i \in DOMAIN wmk.inputs}

\* The composites of the watermark graph in the order they are stacked.
WmChain ==
    LET has(x) == x \in {wmk.inputs[i] : i \in DOMAIN wmk.inputs}
    IN  <<"vtxt">> \o (IF has("logo") THEN <<"vlogo">> ELSE << >>)
                   \o (IF has("qr") THEN <<"vqr">> ELSE << >>)

\* C27: for each combination of logo found or not and QR layer active or
\* not, every [k:v] reference equals the position of its file in the -i list
\* (video 0, then the logo if present, then the banner if active), the
\* layers are chained vtxt -> vlogo -> vqr with absent layers skipped, and
\* the label given to -map is the last one produced.
C27_WatermarkGraphConsistent ==
    wmk.at = "encoding" =>
        LET logo == LogoResolved(wmk.args.logoArg, wmk.args.logoStd)
            qr == QrOverlayActive(wmk.args.given, wmk.args.intervals)
            st == wmk.stages
        IN  /\ wmk.inputs = <<"video">> \o (IF logo THEN <<"logo">> ELSE << >>)
                                        \o (IF qr THEN <<"qr">> ELSE << >>)
            /\ \A i \in DOMAIN st : \A j \in DOMAIN st[i].ins :
                  st[i].ins[j].k = "in" =>
                      /\ st[i].ins[j].n + 1 \in DOMAIN wmk.inputs
                      /\ wmk.inputs[st[i].ins[j].n + 1] = st[i].ins[j].want
            /\ \A a \in {"video", "logo", "qr"} :
                  (\E i \in DOMAIN wmk.inputs : wmk.inputs[i] = a) <=>
                  (\E i \in DOMAIN st : \E j \in DOMAIN st[i].ins :
                       st[i].ins[j].k = "in" /\ st[i].ins[j].want = a)
            /\ \A k \in DOMAIN WmChain :
                  /\ Cardinality({i \in DOMAIN st : st[i].out = WmChain[k]}) = 1
                  /\ k > 1 => \E i \in DOMAIN st :
                                 /\ st[i].out = WmChain[k]
                                 /\ st[i].ins[1] = LabRef(WmChain[k - 1])
            /\ wmk.map = WmChain[Len(WmChain)]
            /\ wmk.map = st[Len(st)].out

\* Logo and banner both present: three inputs, three composites.
C27_Witness ==
    /\ wmk.at = "encoding"
    /\ wmk.inputs = <<"video", "logo", "qr">>
    /\ wmk.map = "vqr"
    /\ Len(wmk.stages) = 5

\* ---------------------------------------------------------------------------
\* Duration probing (utils/media.py).  Durations are tenths of a second;
\* fallback_duration=None is Unknown.
\* ---------------------------------------------------------------------------

\* Longest duration ffprobe reports in the model.
MaxProbed == 60

\* What the ffprobe run does: exit 0 with a number on stdout, a non-zero
\* exit, exit 0 with output float() rejects, or subprocess.run raising.
ProbeOutcomes == {"parsed", "nonzero", "unparsable", "exception"}

Returned(v) == [raised |-> FALSE, err |-> "", value |-> v]
Raised(e) == [raised |-> TRUE, err |-> e, value |-> Unknown]

\* The try block of get_media_duration.
ProbeBody(outcome, value, fallback) ==
    CASE outcome = "parsed" -> Returned(value)
      [] outcome = "unparsable" -> Raised("ValueError")
      [] outcome = "exception" -> Raised("Exception")
      [] outcome = "nonzero" ->
            IF fallback # Unknown THEN Returned(fallback) ELSE Raised("RuntimeError")

\* The except clauses: ValueError, then Exception (which also receives the
\* RuntimeError raised in the try block); both return the fallback when
\* there is one and raise RuntimeError otherwise.
GetMediaDuration(outcome, value, fallback) ==
    LET body == ProbeBody(outcome, value, fallback)
    IN  IF ~body.raised THEN body
        ELSE IF fallback # Unknown THEN Returned(fallback)
        ELSE Raised("RuntimeError")

\* get_video_duration with get_audio_duration's fallback.
GetVideoDurationLenient(outcome, value) == GetMediaDuration(outcome, value, AudioFallback)

GetAudioDuration(outcome, value) == GetMediaDuration(outcome, value, AudioFallback)
GetVideoDuration(outcome, value) == GetMediaDuration(outcome, value, Unknown)

CallGetAudioDuration(outcome, value) ==
    /\ probe.at = "idle"
    /\ probe' = [at |-> "done", fn |-> "get_audio_duration", outcome |-> outcome,
                 value |-> value, result |-> GetAudioDuration(outcome, value)]
    /\ UNCHANGED <<ep, pc, gvars, lvars, cvars, trimArgs, avars, pvars, wmk, anim, poll, enh>>

CallGetVideoDuration(outcome, value) ==
    /\ probe.at = "idle"
    /\ probe' = [at |-> "done", fn |-> "get_video_duration", outcome |-> outcome,
                 value |-> value, result |-> GetVideoDuration(outcome, value)]
    /\ UNCHANGED <<ep, pc, gvars, lvars, cvars, trimArgs, avars, pvars, wmk, anim, poll, enh>>

\* The value on stdout matters only when it is parsed.
ProbeInputs ==
    {<<"parsed", v>> : v \in 0..MaxProbed} \cup {<<o, 0>> : o \in ProbeOutcomes \ {"parsed"}}

NextProbe ==
    \/ probe.at = "idle" /\ \E i \in ProbeInputs : CallGetAudioDuration(i[1], i[2])
    \/ probe.at = "idle" /\ \E i \in ProbeInputs : CallGetVideoDuration(i[1], i[2])

SpecProbe == Init /\ [][NextProbe]_vars

\* C23: on a non-zero exit, unparsable output or an exception of the probe,
\* get_audio_duration returns exactly 10.0 and never raises, and
\* get_video_duration raises RuntimeError and returns nothing; when the
\* probe succeeds both return the parsed value.
C23_ProbeFallbackAudioOnly ==
    probe.at = "done" =>
        LET r == probe.result
        IN  /\ probe.outcome = "parsed" => (~r.raised /\ r.value = probe.value)
            /\ (probe.outcome # "parsed" /\ probe.fn = "get_audio_duration") =>
                  (~r.raised /\ r.value = 100)
            /\ (probe.outcome # "parsed" /\ probe.fn = "get_video_duration") =>
                  (r.raised /\ r.err = "RuntimeError" /\ r.value = Unknown)

\* The probe of a video exits non-zero: RuntimeError, no value.
C23_Witness ==
    /\ probe.at = "done"
    /\ probe.fn = "get_video_duration"
    /\ probe.outcome = "nonzero"
    /\ probe.result.raised

\* ---------------------------------------------------------------------------
\* Duration resolution in the template endpoints
\* ---------------------------------------------------------------------------
\* The request has got as far as a built graph and a started encoder.
CommandBuilt == ep \in TemplateEps /\ child # "none"

\* C24: in every template endpoint the duration that reaches graph
\* construction and the encoder command is strictly positive: it is the
\* submitted value when that is a number above zero, otherwise the probed
\* length of the primary track, and a resolved duration that is not above
\* zero never gets as far as a built graph.
C24_ResolvedDurationPositive ==
    CommandBuilt =>
        /\ dur > 0
        /\ durIn.sub > 0 => dur = durIn.sub
        /\ (durIn.sub <= 0 /\ durIn.probed >= 0) => dur = durIn.probed

\* ---------------------------------------------------------------------------
\* Easing expressions (utils/easing.py)
\* ---------------------------------------------------------------------------
\* Time is sampled on a grid: t in 0..MaxT, animation lengths in AnimDurations,
\* so the normalised time t/duration is the fraction n/d.  Values are exact
\* fractions <<numerator, denominator>>; the decimal constants of
\* ease_out_back are read as decimals.
MaxT == 12
AnimDurations == {2, 10}
Positions == {-4, -1, 0, 2, 3}

\* The keys of easing_expressions.
EasingKinds == {"linear", "ease_out_cubic", "ease_out_quad", "ease_out_expo",
                "ease_in_out_sine", "ease_out_back"}
\* What a caller may pass: a key, or something else.
EasingArgs == EasingKinds \cup {"bounce"}

Pow(b, k) == IF k = 0 THEN 1 ELSE IF k = 1 THEN b ELSE IF k = 2 THEN b * b ELSE b * b * b

RECURSIVE Pow2(_)
Pow2(k) == IF k <= 0 THEN 1 ELSE 2 * Pow2(k - 1)

\* cos(x*PI) for x = n/d a multiple of one half.
CosPi(n, d) ==
    LET h == ((2 * n) \div d) % 4
    IN  IF h = 0 THEN 1 ELSE IF h = 2 THEN -1 ELSE 0

\* The sample n/d is one where the expression has a rational value.
Exact(expr, n, d) ==
    CASE expr = "ease_out_expo"    -> (10 * n) % d = 0
      [] expr = "ease_in_out_sine" -> (2 * n) % d = 0
      [] OTHER                     -> TRUE

\* Mutant of GetEasingExpression: an unknown key falls back to linear.
GetEasingExpressionLinearDefault(easing) ==
    IF easing \in EasingKinds THEN easing ELSE "linear"

\* easing_expressions.get(easing, easing_expressions["ease_out_cubic"])
GetEasingExpression(easing) ==
    IF easing \in EasingKinds THEN easing ELSE "ease_out_cubic"

\* The value of each expression text at t = n/d.
EvalEasing(expr, n, d) ==
    CASE expr = "linear"           -> <<n, d>>
      [] expr = "ease_out_cubic"   -> <<Pow(d, 3) - Pow(d - n, 3), Pow(d, 3)>>
      [] expr = "ease_out_quad"    -> <<Pow(d, 2) - Pow(d - n, 2), Pow(d, 2)>>
      [] expr = "ease_out_expo"    ->
            IF n = d THEN <<1, 1>>
            ELSE LET k == (10 * n) \div d IN <<Pow2(k) - 1, Pow2(k)>>
      [] expr = "ease_in_out_sine" -> <<1 - CosPi(n, d), 2>>
      [] expr = "ease_out_back"    ->
            <<100000 * Pow(d, 3) + 270158 * Pow(n - d, 3) + 170158 * Pow(n - d, 2) * d,
              100000 * Pow(d, 3)>>

\* ---- the text of a slide animation, as tokens
Abs(v) == IF v < 0 THEN 0 - v ELSE v
Num(v) == <<"num", v>>
Paren(v) == <<"paren", v>>
Op(o) == <<o, 0>>

\* f"{v}": a minus sign and the digits, or the digits.
NumText(v) == IF v < 0 THEN <<Op("minus"), Num(Abs(v))>> ELSE <<Num(v)>>

\* Mutant of PositionExpr: the distance is always written without a plus.
PositionExprUnsigned(start_pos, end_pos) ==
    LET distance == end_pos - start_pos
    IN  IF start_pos < 0
        THEN <<Paren(0 - Abs(start_pos))>> \o NumText(distance) \o <<Op("timesE")>>
        ELSE NumText(start_pos) \o NumText(distance) \o <<Op("timesE")>>

\* position_expr of create_slide_animation; (0-(abs_start)) is read as one
\* parenthesised value, "*({easing_expr})" as the token timesE.
PositionExpr(start_pos, end_pos) ==
    LET distance == end_pos - start_pos
    IN  IF start_pos < 0 /\ distance >= 0
        THEN <<Paren(0 - Abs(start_pos)), Op("plus")>> \o NumText(distance) \o <<Op("timesE")>>
        ELSE IF start_pos < 0 /\ distance < 0
        THEN <<Paren(0 - Abs(start_pos))>> \o NumText(distance) \o <<Op("timesE")>>
        ELSE IF start_pos >= 0 /\ distance >= 0
        THEN NumText(start_pos) \o <<Op("plus")>> \o NumText(distance) \o <<Op("timesE")>>
        ELSE NumText(start_pos) \o NumText(distance) \o <<Op("timesE")>>

\* ---- how the expression evaluator reads the tokens
\* Digits written next to each other are one number.
Shift(b) == IF b < 10 THEN 10 ELSE IF b < 100 THEN 100 ELSE 1000

RECURSIVE Lex(_)
Lex(toks) ==
    IF Len(toks) < 2 THEN toks
    ELSE IF toks[1][1] = "num" /\ toks[2][1] = "num"
         THEN Lex(<<Num(toks[1][2] * Shift(toks[2][2]) + toks[2][2])>> \o SubSeq(toks, 3, Len(toks)))
         ELSE <<toks[1]>> \o Lex(Tail(toks))

\* A sum of signed terms, each a value or a value times the eased progress
\* e = <<en, ed>>; the result is a numerator over ed, ok FALSE when the text
\* is not an expression.
RECURSIVE ParseSum(_, _, _, _)
ParseSum(toks, i, acc, e) ==
    IF i > Len(toks) THEN [ok |-> TRUE, num |-> acc]
    ELSE LET signed == toks[i][1] \in {"plus", "minus"}
             s == IF toks[i][1] = "minus" THEN -1 ELSE 1
             j == IF signed THEN i + 1 ELSE i
         IN  IF (i > 1 /\ ~signed) \/ j > Len(toks) \/ toks[j][1] \notin {"num", "paren"}
             THEN [ok |-> FALSE, num |-> 0]
             ELSE IF j + 1 <= Len(toks) /\ toks[j + 1][1] = "timesE"
                  THEN ParseSum(toks, j + 2, acc + s * toks[j][2] * e[1], e)
                  ELSE ParseSum(toks, j + 1, acc + s * toks[j][2] * e[2], e)

EvalExpr(toks, e) == ParseSum(Lex(toks), 1, 0, e)

\* 'if(lt(t,{duration}),{position_expr},{end_pos})' at time t, with the
\* easing expression's t replaced by t/{duration}.
SlideValue(start_pos, end_pos, duration, easing, t) ==
    LET e == EvalEasing(GetEasingExpression(easing), t, duration)
    IN  IF t < duration
        THEN EvalExpr(PositionExpr(start_pos, end_pos), e) @@ [den |-> e[2]]
        ELSE EvalExpr(NumText(end_pos), <<1, 1>>) @@ [den |-> 1]

\* ---- the calls
CallGetEasingExpression(easing, n, d) ==
    /\ anim.at = "idle"
    /\ Exact(GetEasingExpression(easing), n, d)
    /\ anim' = [at |-> "eased", easing |-> easing, n |-> n, d |-> d,
                val |-> EvalEasing(GetEasingExpression(easing), n, d)]
    /\ UNCHANGED <<ep, pc, gvars, lvars, cvars, trimArgs, avars, pvars, wmk, probe, poll, enh>>

CallCreateSlideAnimation(start_pos, end_pos, duration, easing, t) ==
    /\ anim.at = "idle"
    /\ t < duration => Exact(GetEasingExpression(easing), t, duration)
    /\ anim' = [at |-> "slid", start |-> start_pos, end |-> end_pos, d |-> duration,
                easing |-> easing, t |-> t,
                val |-> SlideValue(start_pos, end_pos, duration, easing, t)]
    /\ UNCHANGED <<ep, pc, gvars, lvars, cvars, trimArgs, avars, pvars, wmk, probe, poll, enh>>

NextEasing ==
    \/ anim.at = "idle" /\
         \E easing \in EasingArgs, d \in AnimDurations : \E n \in 0..d :
             CallGetEasingExpression(easing, n, d)
    \/ anim.at = "idle" /\
         \E s \in Positions, e \in Positions, d \in AnimDurations, easing \in EasingArgs, t \in 0..MaxT :
             CallCreateSlideAnimation(s, e, d, easing, t)

SpecEasing == Init /\ [][NextEasing]_vars

\* The eased progress the slide is specified against.
Ease(easing, t, d) ==
    EvalEasing(IF easing \in EasingKinds THEN easing ELSE "ease_out_cubic", t, d)

\* C25: for each of the four sign cases of start_pos and end_pos - start_pos
\* and a duration above zero, the expression create_slide_animation returns
\* evaluates to start_pos at t = 0, to start_pos + (end_pos - start_pos) *
\* ease(t/duration) for 0 <= t < duration, and to exactly end_pos for
\* t >= duration.
C25_SlideExpressionValue ==
    anim.at = "slid" =>
        /\ anim.val.ok
        /\ anim.t = 0 => anim.val.num = anim.start * anim.val.den
        /\ anim.t < anim.d =>
              LET e == Ease(anim.easing, anim.t, anim.d)
              IN  /\ anim.val.den = e[2]
                  /\ anim.val.num = anim.start * e[2] + (anim.end - anim.start) * e[1]
        /\ anim.t >= anim.d => anim.val.num = anim.end * anim.val.den

\* A slide from a non-negative start over a negative distance, part way.
C25_Witness ==
    /\ anim.at = "slid"
    /\ anim.start = 3 /\ anim.end = -4 /\ anim.d = 10 /\ anim.t = 5
    /\ anim.easing = "ease_out_cubic"
    /\ anim.val.ok
    /\ anim.val.num * 8 = (3 * 8 - 7 * 7) * anim.val.den

\* C26: every easing kind get_easing_expression accepts, an unrecognised one
\* included (it uses ease-out-cubic), evaluates to 0 at t = 0 and to 1 at
\* t = 1; ease-out-back is never below 0 on [0, 1].
C26_EasingEndpoints ==
    anim.at = "eased" =>
        /\ anim.n = 0 => anim.val[1] = 0
        /\ anim.n = anim.d => anim.val[1] = anim.val[2]
        /\ anim.easing \notin EasingKinds =>
              anim.val = EvalEasing("ease_out_cubic", anim.n, anim.d)
        /\ anim.easing = "ease_out_back" => anim.val[1] >= 0

\* ease-out-back above 1 inside the interval.
C26_Witness ==
    /\ anim.at = "eased"
    /\ anim.easing = "ease_out_back"
    /\ 0 < anim.n /\ anim.n < anim.d
    /\ anim.val[1] > anim.val[2]

\* ---------------------------------------------------------------------------
\* Range validation in trim_video
\* ---------------------------------------------------------------------------
\* The trim encoder has been started for this request.
TrimEncoderStarted == ep = "trim" /\ pc \notin {"idle", "probing"} /\ trimArgs.duration # NoTrim.duration

\* C28: trim_video rejects every invalid range (start < 0, end <= start, or
\* a start at or beyond the probed duration) with a 400 before the encoder
\* is started, and the trim length end - start taken after clamping end to
\* the probed duration is strictly positive.
C28_TrimRangeValidated ==
    /\ (ep = "trim" /\ resp = "error" /\ errKind = "validation") => child = "none"
    /\ TrimEncoderStarted =>
          /\ 0 <= trimArgs.start
          /\ trimArgs.start < trimArgs.duration
          /\ trimArgs.len > 0

\* ---------------------------------------------------------------------------
\* Polling the transcript (_poll_transcript)
\* ---------------------------------------------------------------------------
MaxPollTimeout == 6
PollIntervals == {1, 2, 4}
PollTimeouts == 0..MaxPollTimeout

\* payload["status"] of one status response; http_error stands for a
\* response on which raise_for_status() raises.
PendingStatuses == {"queued", "processing"}
TerminalStatuses == {"completed", "error"}
PollResponses == PendingStatuses \cup TerminalStatuses \cup {"http_error"}

\* Mutant of MaxAttempts: one attempt more than the budget.
MaxAttemptsOneMore(poll_timeout, poll_interval) ==
    Max(1, (poll_timeout \div poll_interval) + 1)

\* max(1, int(config.poll_timeout // config.poll_interval))
MaxAttempts(poll_timeout, poll_interval) ==
    Max(1, poll_timeout \div poll_interval)

\* The call is entered: the attempt budget is computed once.
PollBegin(poll_interval, poll_timeout) ==
    /\ poll.at = "idle"
    /\ poll' = [at |-> "requesting", interval |-> poll_interval, timeout |-> poll_timeout,
                max |-> MaxAttempts(poll_timeout, poll_interval),
                requests |-> 0, last |-> "", terminalAt |-> 0, err |-> ""]
    /\ UNCHANGED <<ep, pc, gvars, lvars, cvars, trimArgs, avars, pvars, wmk, probe, anim, enh>>

\* One pass of the loop body up to the sleep: the GET and what its answer
\* leads to.
PollRequest(status) ==
    /\ poll.at = "requesting"
    /\ LET n == poll.requests + 1
       IN  poll' = [poll EXCEPT
                !.requests = n,
                !.last = status,
                !.terminalAt = IF status \in TerminalStatuses /\ poll.terminalAt = 0
                               THEN n ELSE poll.terminalAt,
                !.at = CASE status = "completed"  -> "returned"
                         [] status = "error"      -> "raised"
                         [] status = "http_error" -> "raised"
                         [] OTHER                 -> "sleeping",
                !.err = CASE status = "error"      -> "RuntimeError"
                          [] status = "http_error" -> "HTTPStatusError"
                          [] OTHER                 -> ""]
    /\ UNCHANGED <<ep, pc, gvars, lvars, cvars, trimArgs, avars, pvars, wmk, probe, anim, enh>>

\* asyncio.sleep(poll_interval) returns: the next pass, or the end of the
\* loop and the TimeoutError after it.
PollSleepEnds ==
    /\ poll.at = "sleeping"
    /\ poll' = IF poll.requests < poll.max
               THEN [poll EXCEPT !.at = "requesting"]
               ELSE [poll EXCEPT !.at = "raised", !.err = "TimeoutError"]
    /\ UNCHANGED <<ep, pc, gvars, lvars, cvars, trimArgs, avars, pvars, wmk, probe, anim, enh>>

NextPoll ==
    \/ poll.at = "idle" /\
         \E i \in PollIntervals, t \in PollTimeouts : PollBegin(i, t)
    \/ poll.at = "requesting" /\ \E s \in PollResponses : PollRequest(s)
    \/ PollSleepEnds

SpecPoll == Init /\ [][NextPoll]_vars

\* Every await of the coroutine completes: the service answers each request
\* (or the client's own timeout raises) and the sleep returns.
SpecPollFair == SpecPoll /\ WF_vars(NextPoll)

PollEnded == poll.at \in {"returned", "raised"}

\* What holds of a call at every moment.
PollWithinBudget ==
    poll.at # "idle" =>
        /\ poll.requests <= Max(1, poll.timeout \div poll.interval)
        /\ poll.at = "returned" => poll.last = "completed"
        /\ (poll.at = "raised" /\ poll.err = "RuntimeError") => poll.last = "error"
        /\ poll.last = "completed" => poll.at = "returned"
        /\ poll.last = "error" => (poll.at = "raised" /\ poll.err = "RuntimeError")
        /\ (poll.at = "raised" /\ poll.err = "TimeoutError") =>
              /\ poll.requests = Max(1, poll.timeout \div poll.interval)
              /\ poll.last \in PendingStatuses
        /\ (poll.last \in PendingStatuses /\ poll.requests = Max(1, poll.timeout \div poll.interval)) =>
              poll.at \in {"sleeping", "raised"}
        /\ poll.terminalAt # 0 => poll.requests = poll.terminalAt

\* C29: _poll_transcript issues at most max(1, floor(poll_timeout /
\* poll_interval)) status requests, returns the payload at the first
\* 'completed', raises RuntimeError at the first 'error', raises
\* TimeoutError when neither has appeared by the last attempt, issues no
\* request after a terminal status, and always comes to an end.
C29_PollBoundedAndEnds ==
    /\ []PollWithinBudget
    /\ (poll.at # "idle") ~> PollEnded

\* Three pending answers use up a budget of three, and the call times out.
C29_Witness ==
    /\ poll.at = "raised" /\ poll.err = "TimeoutError"
    /\ poll.timeout = 6 /\ poll.interval = 2
    /\ poll.requests = 3

\* ---------------------------------------------------------------------------
\* enhance_audio and its route (utils/audio_enhancer.py, api/v1/audio.py)
\* ---------------------------------------------------------------------------
\* The awaited steps of enhance_audio inside its try, in order.
EnhSteps == <<"write_upload", "normalize", "transcribe", "denoise", "ranges", "export">>

\* What each step can raise.
EnhStepErrors(step) ==
    CASE step = "write_upload" -> {"OSError"}
      [] step = "normalize"    -> {"RuntimeError"}
      [] step = "transcribe"   -> {"RuntimeError", "TimeoutError", "HTTPStatusError"}
      [] step = "denoise"      -> {"RuntimeError"}
      [] step = "ranges"       -> {"TypeError"}
      [] step = "export"       -> {"OSError", "RuntimeError"}

\* Mutant of DirAfterFailure: the directory is left as it is.
DirAfterFailureKept(dir) == dir

\* The except block of enhance_audio: _safe_cleanup(temp_dir), then raise.
DirAfterFailure(dir) == IF dir = "exists" THEN "removed" ELSE dir

\* The status the route answers with for an exception of enhance_audio.
EnhanceStatus(err) ==
    CASE err = "FileNotFoundError" -> 500
      [] err = "TimeoutError"      -> 504
      [] OTHER                     -> 502

\* What the upload's content_type may be: an audio type, another type, none.
ContentTypes == {"audio", "other", "none"}

\* The route's own tests (feature switch, _validate_upload), which answer
\* without calling enhance_audio; 0 when they pass.
RouteRejects(featureOn, hasName, ctype) ==
    IF ~featureOn THEN 503
    ELSE IF ~hasName \/ ctype = "other" THEN 400 ELSE 0

\* The route is entered; when its tests pass enhance_audio is entered: the
\* two tests before mkdtemp, then mkdtemp.
EnhBegin(featureOn, hasName, ctype, hasKey, modelExists) ==
    /\ enh.at = "idle"
    /\ LET rejected == RouteRejects(featureOn, hasName, ctype) # 0
           ready == ~rejected /\ hasKey /\ modelExists
       IN  enh' = [at |-> IF rejected THEN "rejected" ELSE IF ready THEN "running" ELSE "raised",
                   ctype |-> ctype,
                   step |-> 1,
                   err |-> IF rejected THEN "HTTPException"
                           ELSE IF ~hasKey THEN "RuntimeError"
                           ELSE IF ~modelExists THEN "FileNotFoundError" ELSE "",
                   created |-> ready,
                   dir |-> IF ready THEN "exists" ELSE "none",
                   out |-> FALSE, fillers |-> FALSE, tid |-> FALSE,
                   resp |-> IF rejected THEN "error" ELSE "none",
                   status |-> RouteRejects(featureOn, hasName, ctype),
                   bgTasks |-> 0, bgRan |-> FALSE]
    /\ UNCHANGED <<ep, pc, gvars, lvars, cvars, trimArgs, avars, pvars, wmk, probe, anim, poll>>

\* The current step completes; the transcript tells whether there is an id
\* and whether there is anything to cut; export writes enhanced.webm, and the
\* result is returned after it.
EnhStepOk(tid, fillers) ==
    /\ enh.at = "running"
    /\ LET s == EnhSteps[enh.step]
       IN  enh' = [enh EXCEPT
                !.step = IF s = "export" THEN enh.step ELSE enh.step + 1,
                !.at = IF s = "export" THEN "returned" ELSE "running",
                !.out = (s = "export"),
                !.tid = IF s = "transcribe" THEN tid ELSE enh.tid,
                !.fillers = IF s = "transcribe" THEN fillers ELSE enh.fillers]
    /\ UNCHANGED <<ep, pc, gvars, lvars, cvars, trimArgs, avars, pvars, wmk, probe, anim, poll>>

\* The current step raises: the except block cleans up and re-raises.
EnhStepFails(err) ==
    /\ enh.at = "running"
    /\ err \in EnhStepErrors(EnhSteps[enh.step])
    /\ enh' = [enh EXCEPT !.at = "raised", !.err = err,
                          !.dir = DirAfterFailure(enh.dir), !.out = FALSE]
    /\ UNCHANGED <<ep, pc, gvars, lvars, cvars, trimArgs, avars, pvars, wmk, probe, anim, poll>>

\* enhance_audio_route after the await: an HTTPException for an exception,
\* or the cleanup task registered and the FileResponse returned.
EnhRouteAnswers ==
    /\ enh.at \in {"returned", "raised"}
    /\ enh.resp = "none"
    /\ enh' = IF enh.at = "raised"
              THEN [enh EXCEPT !.resp = "error", !.status = EnhanceStatus(enh.err)]
              ELSE [enh EXCEPT !.resp = "sending", !.status = 200,
                               !.bgTasks = enh.bgTasks + 1]
    /\ UNCHANGED <<ep, pc, gvars, lvars, cvars, trimArgs, avars, pvars, wmk, probe, anim, poll>>

\* The file response has been sent.
EnhResponseSent ==
    /\ enh.at = "returned"
    /\ enh.resp = "sending"
    /\ enh' = [enh EXCEPT !.resp = "sent"]
    /\ UNCHANGED <<ep, pc, gvars, lvars, cvars, trimArgs, avars, pvars, wmk, probe, anim, poll>>

\* The background task cleanup_temp_path(result.temp_dir) runs.
EnhBackgroundCleanup ==
    /\ enh.at = "returned"
    /\ enh.resp = "sent"
    /\ enh.bgTasks > 0
    /\ ~enh.bgRan
    /\ enh' = [enh EXCEPT !.bgRan = TRUE, !.dir = "removed", !.out = FALSE]
    /\ UNCHANGED <<ep, pc, gvars, lvars, cvars, trimArgs, avars, pvars, wmk, probe, anim, poll>>

NextEnhance ==
    \/ enh.at = "idle" /\
         \E on \in BOOLEAN, nm \in BOOLEAN, ct \in ContentTypes, k \in BOOLEAN, m \in BOOLEAN :
             EnhBegin(on, nm, ct, k, m)
    \/ enh.at = "running" /\ \E t \in BOOLEAN, f \in BOOLEAN : EnhStepOk(t, f)
    \/ enh.at = "running" /\
         \E e \in {"OSError", "RuntimeError", "TimeoutError", "HTTPStatusError", "TypeError"} :
             EnhStepFails(e)
    \/ EnhRouteAnswers
    \/ EnhResponseSent
    \/ EnhBackgroundCleanup

SpecEnhance == Init /\ [][NextEnhance]_vars

\* C30: in enhance_audio any failure after the temporary directory is
\* created removes the directory before the exception propagates; on success
\* the directory and the output file still exist when it returns; the route
\* removes the directory only through a background task after the response.
C30_EnhanceDirLifetime ==
    enh.at # "idle" =>
        /\ (enh.at = "raised" /\ enh.created) => enh.dir = "removed"
        /\ (enh.at = "returned" /\ enh.resp \in {"none", "sending"}) =>
              (enh.dir = "exists" /\ enh.out)
        /\ (enh.at = "returned" /\ enh.dir = "removed") =>
              (enh.resp = "sent" /\ enh.bgRan /\ enh.bgTasks = 1)

\* The transcription timed out after the directory was made: the directory
\* is gone and the route answers 504.
C30_Witness ==
    /\ enh.at = "raised" /\ enh.created
    /\ enh.err = "TimeoutError"
    /\ enh.dir = "removed"
    /\ enh.resp = "error" /\ enh.status = 504

====
